---- MODULE Spec2Model ----
(***************************************************************************)
(* A model of rlox, a tree-walking interpreter for Lox: the scanner        *)
(* (interpreter/src/scanner.rs), the recursive-descent parser              *)
(* (interpreter/src/parser.rs), the environment                            *)
(* (interpreter/src/environment.rs) and the evaluator                      *)
(* (src/interpreter.rs) and the driver (src/main.rs).  Each component is a *)
(* state machine of its own (SpecScan, SpecParse, SpecEnv, SpecInterp),    *)
(* and SpecRun is the driver that chains them, over the shared data model  *)
(* below.                                                                  *)
(***************************************************************************)
EXTENDS Integers, Sequences, FiniteSets, TLC

VARIABLES
    \* Interpreter (src/interpreter.rs)
    stmts,            \* the statements interpret() has still to run
    executed,         \* history: the statements interpret() has run, in order
    environment,      \* Interpreter.environment
    stdout,           \* the values written by Print statements, in order
    runtime_errors,   \* the RuntimeErrors handed to Lox::runtime_error
    interp_pc,        \* "interpret" | "returned" | "panicked" | "idle"
    panic,            \* the payload of the panic that aborted the process
    \* Parser (interpreter/src/parser.rs)
    tokens,           \* Parser.tokens
    current,          \* Parser.current
    statements,       \* the local `statements` of Parser::parse
    parse_errors,     \* the ParseErrors handed to Lox::parse_error
    parser_pc,        \* "parse" | "returned" | "panicked" | "idle"
    \* Scanner (interpreter/src/scanner.rs)
    source,           \* Scanner.source: a sequence of chars
    scan_start,       \* Scanner.start
    scan_current,     \* Scanner.current
    line,             \* Scanner.line
    scan_tokens_out,  \* Scanner.tokens
    lex_errors,       \* the (line, message) pairs handed to Lox::error
    scanner_pc,       \* "scan" | "returned" | "panicked" | "idle"
    \* Environment (interpreter/src/environment.rs), called on its own
    env_call,         \* the last call of define, get or assign and its result
    \* Lox (src/main.rs)
    had_error,        \* Lox.had_error, the field that run() tests
    HAD_ERROR,        \* the static HAD_ERROR, stored by Lox::report
    lines_read,       \* the lines run_prompt has read from stdin
    interpret_calls,  \* the calls of INTERPRETER.interpret so far
    run_pc            \* "prompt" | "scan" | "parse" | "check" | "reset"
                      \* | "exited" | "panicked" | "idle"

interp_vars ==
    <<stmts, executed, environment, stdout, runtime_errors, interp_pc, panic>>
parser_vars == <<tokens, current, statements, parse_errors, parser_pc>>
scanner_vars == <<source, scan_start, scan_current, line, scan_tokens_out,
                  lex_errors, scanner_pc>>
env_vars == <<env_call>>
driver_vars == <<had_error, HAD_ERROR, lines_read, interpret_calls, run_pc>>
vars == <<interp_vars, parser_vars, scanner_vars, env_vars, driver_vars>>

----------------------------------------------------------------------------
(* Bounds of the model *)

\* the longest free-form statement sequence given to interpret
MaxStmts == 2
\* the longest free-form token sequence (without Eof) given to the parser
MaxTokens == 4
\* the longest source text (in chars) given to the scanner
MaxSource == 3
\* the longest chain of scopes given to define, get and assign
MaxDepth == 3

----------------------------------------------------------------------------
(* Option<T>, Result<T, E> and panics *)

None == <<>>
Some(x) == <<x>>
is_some(o) == Len(o) = 1
is_none(o) == Len(o) = 0
unwrap(o) == o[1]

\* a `let` binding: body F with its variable bound to the value v
With(v, F(_)) == F(v)

NoPanic == "none"
\* Option::unwrap() on None
PanicUnwrapNone == "called Option::unwrap on a None value"
\* Result::unwrap() on Err
PanicUnwrapErr == "called Result::unwrap on an Err value"
\* an index past the end of a Vec, or usize underflow
PanicIndex == "index out of bounds"

----------------------------------------------------------------------------
(* f64: exact rationals n/d in lowest terms, d > 0, with d = 0 for the     *)
(* IEEE specials (n = 1: +inf, n = -1: -inf, n = 0: NaN).  The sign of     *)
(* zero is not modelled.                                                   *)

RECURSIVE gcd(_, _)
gcd(a, b) == IF b = 0 THEN a ELSE gcd(b, a % b)

abs(a) == IF a < 0 THEN -a ELSE a
sign(a) == IF a < 0 THEN -1 ELSE IF a > 0 THEN 1 ELSE 0

f64(n, d) ==
    IF d = 0 THEN [n |-> sign(n), d |-> 0]
    ELSE LET g == gcd(abs(n), abs(d))
         IN [n |-> sign(d) * (n \div g), d |-> abs(d) \div g]

f64_nan == [n |-> 0, d |-> 0]
f64_is_nan(a) == a.d = 0 /\ a.n = 0
f64_is_inf(a) == a.d = 0 /\ a.n # 0

f64_add(a, b) ==
    IF f64_is_nan(a) \/ f64_is_nan(b) THEN f64_nan
    ELSE IF f64_is_inf(a) /\ f64_is_inf(b)
         THEN (IF a.n = b.n THEN a ELSE f64_nan)
    ELSE IF f64_is_inf(a) THEN a
    ELSE IF f64_is_inf(b) THEN b
    ELSE f64(a.n * b.d + b.n * a.d, a.d * b.d)

f64_mul(a, b) ==
    IF f64_is_nan(a) \/ f64_is_nan(b) THEN f64_nan
    ELSE IF f64_is_inf(a) \/ f64_is_inf(b)
         THEN (IF a.n = 0 \/ b.n = 0 THEN f64_nan
               ELSE [n |-> sign(a.n) * sign(b.n), d |-> 0])
    ELSE f64(a.n * b.n, a.d * b.d)

f64_neg(a) == [n |-> -a.n, d |-> a.d]
f64_sub(a, b) == f64_add(a, f64_neg(b))

f64_recip(a) ==
    IF f64_is_nan(a) THEN f64_nan
    ELSE IF f64_is_inf(a) THEN f64(0, 1)
    ELSE IF a.n = 0 THEN [n |-> 1, d |-> 0]
    ELSE f64(a.d, a.n)

f64_div(a, b) == f64_mul(a, f64_recip(b))

f64_lt(a, b) ==
    IF f64_is_nan(a) \/ f64_is_nan(b) THEN FALSE
    ELSE IF a.d = 0 /\ b.d = 0 THEN a.n < b.n
    ELSE IF a.d = 0 THEN a.n < 0
    ELSE IF b.d = 0 THEN b.n > 0
    ELSE a.n * b.d < b.n * a.d

f64_eq(a, b) == ~f64_is_nan(a) /\ ~f64_is_nan(b) /\ a = b
f64_le(a, b) == f64_lt(a, b) \/ f64_eq(a, b)

----------------------------------------------------------------------------
(* token.rs: Literal, Token                                                *)

Literal_Nil == [kind |-> "Nil", b |-> FALSE, num |-> f64(0, 1), s |-> ""]
Literal_Bool(b) == [kind |-> "Bool", b |-> b, num |-> f64(0, 1), s |-> ""]
Literal_Number(x) == [kind |-> "Number", b |-> FALSE, num |-> x, s |-> ""]
Literal_String(s) == [kind |-> "String", b |-> FALSE, num |-> f64(0, 1), s |-> s]

Num(i) == Literal_Number(f64(i, 1))

Token_new(token_type, lexeme, literal, ln) ==
    [token_type |-> token_type, lexeme |-> lexeme, literal |-> literal,
     line |-> ln]

\* the derived PartialEq of Literal: same variant and equal payload
Literal_eq(l, r) ==
    /\ l.kind = r.kind
    /\ CASE l.kind = "Nil" -> TRUE
         [] l.kind = "Bool" -> l.b = r.b
         [] l.kind = "Number" -> f64_eq(l.num, r.num)
         [] l.kind = "String" -> l.s = r.s

----------------------------------------------------------------------------
(* parser.rs: Expr, Stmt.  A node is a tuple whose first element is the    *)
(* variant.                                                                *)

Expr_Unary(t, e) == <<"Unary", t, e>>
Expr_Binary(l, t, r) == <<"Binary", l, t, r>>
Expr_Grouping(e) == <<"Grouping", e>>
Expr_Literal(l) == <<"Literal", l>>
Expr_Var(t) == <<"Var", t>>
Expr_Assignment(t, e) == <<"Assignment", t, e>>
Expr_Logical(l, t, r) == <<"Logical", l, t, r>>

Stmt_Expr(e) == <<"Expr", e>>
Stmt_Print(e) == <<"Print", e>>
Stmt_Var(name, initializer) == <<"Var", name, initializer>>
Stmt_Block(ss) == <<"Block", ss>>
Stmt_If(condition, then_branch, else_branch) ==
    <<"If", condition, then_branch, else_branch>>

----------------------------------------------------------------------------
(* environment.rs                                                          *)

\* HashMap::new
HashMap_new == [x \in {} |-> Literal_Nil]

Environment_new(enclosing) == [enclosing |-> enclosing, values |-> HashMap_new]

RuntimeError(token, message) == [token |-> token, message |-> message]
NoError == [token |-> Token_new("Eof", "", None, 0), message |-> ""]

\* HashMap::insert
HashMap_insert(m, k, v) ==
    [x \in DOMAIN m \cup {k} |-> IF x = k THEN v ELSE m[x]]

\* define that keeps an earlier binding of the name
Environment_define_keeps_first(env, name, value) ==
    IF name \in DOMAIN env.values THEN env
    ELSE [env EXCEPT !.values = HashMap_insert(env.values, name, value)]

Environment_define(env, name, value) ==
    [env EXCEPT !.values = HashMap_insert(env.values, name, value)]

\* get that looks in the current scope only
Environment_get_current_only(env, name) ==
    IF name.lexeme \in DOMAIN env.values
    THEN [ok |-> TRUE, value |-> env.values[name.lexeme], err |-> NoError]
    ELSE [ok |-> FALSE, value |-> Literal_Nil,
          err |-> RuntimeError(name, "Undefined variable " \o name.lexeme)]

RECURSIVE Environment_get(_, _)
Environment_get(env, name) ==
    IF name.lexeme \in DOMAIN env.values
    THEN [ok |-> TRUE, value |-> env.values[name.lexeme], err |-> NoError]
    ELSE IF is_some(env.enclosing)
         THEN Environment_get(unwrap(env.enclosing), name)
         ELSE [ok |-> FALSE, value |-> Literal_Nil,
               err |-> RuntimeError(name, "Undefined variable " \o name.lexeme)]

\* assign that writes the current scope without searching
Environment_assign_current_scope(env, name, value) ==
    [ok |-> TRUE, err |-> NoError,
     env |-> [env EXCEPT !.values =
                  HashMap_insert(env.values, name.lexeme, value)]]

RECURSIVE Environment_assign(_, _, _)
Environment_assign(env, name, value) ==
    IF name.lexeme \in DOMAIN env.values
    THEN [ok |-> TRUE, err |-> NoError,
          env |-> [env EXCEPT !.values =
                       HashMap_insert(env.values, name.lexeme, value)]]
    ELSE IF is_some(env.enclosing)
         THEN With(Environment_assign(unwrap(env.enclosing), name, value),
                   LAMBDA r : [ok |-> r.ok, err |-> r.err,
                               env |-> [env EXCEPT !.enclosing = Some(r.env)]])
         ELSE [ok |-> FALSE, env |-> env,
               err |-> RuntimeError(name, "Undefined variable " \o name.lexeme)]

----------------------------------------------------------------------------
(* interpreter.rs: expressions.  evaluate returns the Result and the       *)
(* environment as the evaluation left it.                                  *)

Ok(v, env) == [ok |-> TRUE, value |-> v, err |-> NoError, env |-> env]
Err(e, env) == [ok |-> FALSE, value |-> Literal_Nil, err |-> e, env |-> env]

\* is_truthy that takes the number zero for false
is_truthy_zero_is_false(l) ==
    /\ l.kind # "Nil"
    /\ l.kind = "Bool" => l.b
    /\ l.kind = "Number" => ~f64_eq(l.num, f64(0, 1))

is_truthy(l) ==
    CASE l.kind = "Nil" -> FALSE
      [] l.kind = "Bool" -> l.b
      [] OTHER -> TRUE

\* is_equal without the arm (Nil, Nil)
is_equal_nil_equals_nothing(l, r) ==
    IF l.kind = "Nil" THEN FALSE ELSE Literal_eq(l, r)

is_equal(l, r) ==
    IF l.kind = "Nil" /\ r.kind = "Nil" THEN TRUE
    ELSE IF l.kind = "Nil" THEN FALSE
    ELSE Literal_eq(l, r)

evaluate_literal(env, l) == Ok(l, env)

\* the error of evaluate_unary in the place of that of evaluate_binary
OperandMustBeANumber(t, env) ==
    Err(RuntimeError(t, "Operand must be a number"), env)

OperandsMustBeNumbers(t, env) ==
    Err(RuntimeError(t, "Operands must be numbers"), env)

\* the match on t.token_type of evaluate_binary, both operands evaluated
binary_op(l, t, r, env) ==
    LET nums == l.kind = "Number" /\ r.kind = "Number"
        tt == t.token_type
    IN CASE tt = "Plus" ->
              IF nums THEN Ok(Literal_Number(f64_add(l.num, r.num)), env)
              ELSE IF l.kind = "String" /\ r.kind = "String"
                   THEN Ok(Literal_String(l.s \o r.s), env)
              ELSE OperandsMustBeNumbers(t, env)
         [] tt = "Minus" ->
              IF nums THEN Ok(Literal_Number(f64_sub(l.num, r.num)), env)
              ELSE OperandsMustBeNumbers(t, env)
         [] tt = "Star" ->
              IF nums THEN Ok(Literal_Number(f64_mul(l.num, r.num)), env)
              ELSE OperandsMustBeNumbers(t, env)
         [] tt = "Slash" ->
              IF nums THEN Ok(Literal_Number(f64_div(l.num, r.num)), env)
              ELSE OperandsMustBeNumbers(t, env)
         [] tt = "Greater" ->
              IF nums THEN Ok(Literal_Bool(f64_lt(r.num, l.num)), env)
              ELSE OperandsMustBeNumbers(t, env)
         [] tt = "GreaterEqual" ->
              IF nums THEN Ok(Literal_Bool(f64_le(r.num, l.num)), env)
              ELSE OperandsMustBeNumbers(t, env)
         [] tt = "Less" ->
              IF nums THEN Ok(Literal_Bool(f64_lt(l.num, r.num)), env)
              ELSE OperandsMustBeNumbers(t, env)
         [] tt = "LessEqual" ->
              IF nums THEN Ok(Literal_Bool(f64_le(l.num, r.num)), env)
              ELSE OperandsMustBeNumbers(t, env)
         [] tt = "EqualEqual" -> Ok(Literal_Bool(is_equal(l, r)), env)
         [] tt = "BangEqual" -> Ok(Literal_Bool(~is_equal(l, r)), env)
         [] OTHER -> Ok(Literal_Nil, env)

\* the match on t.token_type of evaluate_unary, the operand evaluated
unary_op(t, r, env) ==
    CASE t.token_type = "Bang" -> Ok(Literal_Bool(is_truthy(r)), env)
      [] t.token_type = "Minus" ->
           IF r.kind = "Number"
           THEN Ok(Literal_Number(f64_mul(r.num, f64(-1, 1))), env)
           ELSE Err(RuntimeError(t, "Operand must be a number"), env)
      [] OTHER -> Ok(Literal_Nil, env)

RECURSIVE evaluate(_, _)
RECURSIVE evaluate_unary(_, _, _)
RECURSIVE evaluate_binary(_, _, _, _)
RECURSIVE evaluate_grouping(_, _)

evaluate_unary(env, t, r) ==
    With(evaluate(env, r),
         LAMBDA rv : IF ~rv.ok THEN rv ELSE unary_op(t, rv.value, rv.env))

evaluate_binary(env, l, t, r) ==
    With(evaluate(env, l),
         LAMBDA lv :
           IF ~lv.ok THEN lv
           ELSE With(evaluate(lv.env, r),
                     LAMBDA rv :
                       IF ~rv.ok THEN rv
                       ELSE binary_op(lv.value, t, rv.value, rv.env)))

evaluate_grouping(env, g) == evaluate(env, g)

evaluate(env, expr) ==
    CASE expr[1] = "Unary" -> evaluate_unary(env, expr[2], expr[3])
      [] expr[1] = "Binary" -> evaluate_binary(env, expr[2], expr[3], expr[4])
      [] expr[1] = "Grouping" -> evaluate_grouping(env, expr[2])
      [] expr[1] = "Literal" -> evaluate_literal(env, expr[2])
      [] expr[1] = "Var" ->
           With(Environment_get(env, expr[2]),
                LAMBDA g : IF g.ok THEN Ok(g.value, env) ELSE Err(g.err, env))
      [] expr[1] = "Assignment" ->
           With(evaluate(env, expr[3]),
                LAMBDA value :
                  IF ~value.ok THEN value
                  ELSE With(Environment_assign(value.env, expr[2], value.value),
                            LAMBDA a : IF ~a.ok THEN Err(a.err, a.env)
                                       ELSE Ok(value.value, a.env)))

----------------------------------------------------------------------------
(* interpreter.rs: statements.  The interpreter's effects are threaded     *)
(* through a record: the environment, what Print wrote, the errors handed  *)
(* to Lox::runtime_error, and the payload of a panic (NoPanic: none).      *)

\* Lox::runtime_error (main.rs)
runtime_error(st, e) == [st EXCEPT !.runtime_errors = Append(@, e)]

RECURSIVE interpret_stmt(_, _)
RECURSIVE interpret_block(_, _)

\* the loop `for s in stmts` of Stmt::Block; a panic unwinds out of it
interpret_block(st, ss) ==
    IF ss = <<>> THEN st
    ELSE With(interpret_stmt(st, Head(ss)),
              LAMBDA st1 : IF st1.panic # NoPanic THEN st1
                           ELSE interpret_block(st1, Tail(ss)))

interpret_stmt(st, stmt) ==
    CASE stmt[1] = "Print" ->
           With(evaluate(st.environment, stmt[2]),
                LAMBDA f :
                  IF f.ok
                  THEN [st EXCEPT !.environment = f.env,
                                  !.stdout = Append(@, f.value)]
                  ELSE runtime_error([st EXCEPT !.environment = f.env], f.err))
      [] stmt[1] = "Var" ->
           IF is_some(stmt[3])
           THEN With(evaluate(st.environment, unwrap(stmt[3])),
                     LAMBDA f :
                       [(IF f.ok THEN st ELSE runtime_error(st, f.err))
                           EXCEPT !.environment =
                               Environment_define(f.env, stmt[2].lexeme,
                                   IF f.ok THEN f.value ELSE Literal_Nil)])
           ELSE [st EXCEPT !.environment =
                     Environment_define(@, stmt[2].lexeme, Literal_Nil)]
      [] stmt[1] = "Block" -> interpret_block(st, stmt[2])
      [] stmt[1] = "If" ->
           With(evaluate(st.environment, stmt[2]),
                LAMBDA c :
                  IF ~c.ok
                  THEN [st EXCEPT !.environment = c.env, !.panic = PanicUnwrapErr]
                  ELSE IF is_truthy(c.value)
                  THEN interpret_stmt([st EXCEPT !.environment = c.env], stmt[3])
                  ELSE IF is_none(stmt[4])
                  THEN [st EXCEPT !.environment = c.env, !.panic = PanicUnwrapNone]
                  ELSE interpret_stmt([st EXCEPT !.environment = c.env],
                                      unwrap(stmt[4])))
      [] stmt[1] = "Expr" ->
           With(evaluate(st.environment, stmt[2]),
                LAMBDA f :
                  IF f.ok THEN [st EXCEPT !.environment = f.env]
                  ELSE runtime_error([st EXCEPT !.environment = f.env], f.err))

----------------------------------------------------------------------------
(* The statement sequences given to interpret.                             *)

\* a token as Scanner::add_token makes it
Tok(token_type, lexeme) == Token_new(token_type, lexeme, Some(Literal_Nil), 1)
Id(name) == Tok("Identifier", name)

Names == {"x", "y"}
LiteralPool ==
    {Literal_Nil, Literal_Bool(TRUE), Literal_Bool(FALSE), Num(0), Num(1),
     Literal_String(""), Literal_String("a")}
AtomPool ==
    {Expr_Literal(l) : l \in LiteralPool} \cup {Expr_Var(Id(n)) : n \in Names}
ExprPool ==
    AtomPool
    \cup {Expr_Unary(Tok("Bang", "!"), a) : a \in AtomPool}
    \cup {Expr_Unary(Tok("Minus", "-"), a) :
            a \in {Expr_Literal(Num(1)), Expr_Literal(Literal_String("a"))}}
    \cup {Expr_Binary(Expr_Literal(Num(1)), Tok("Plus", "+"), a) :
            a \in {Expr_Literal(Num(1)), Expr_Literal(Literal_String("a")),
                   Expr_Var(Id("y"))}}
    \cup {Expr_Grouping(Expr_Var(Id("x")))}
AssignPool ==
    {Expr_Assignment(Id("x"), Expr_Literal(Num(2))),
     Expr_Assignment(Id("x"), Expr_Literal(Literal_Nil)),
     Expr_Assignment(Id("y"), Expr_Var(Id("x")))}
Print1 == Stmt_Print(Expr_Literal(Num(1)))
Print2 == Stmt_Print(Expr_Literal(Num(2)))
PrintX == Stmt_Print(Expr_Var(Id("x")))
VarPool ==
    {Stmt_Var(Id(n), None) : n \in Names}
    \cup {Stmt_Var(Id("x"), Some(e)) :
            e \in {Expr_Literal(Num(1)), Expr_Literal(Num(2)), Expr_Var(Id("y"))}}
BlockPool ==
    {Stmt_Block(<<Stmt_Var(Id("x"), Some(Expr_Literal(Num(2)))), PrintX>>),
     Stmt_Block(<<Stmt_Expr(Expr_Assignment(Id("x"), Expr_Literal(Num(2))))>>),
     Stmt_Block(<<Stmt_Print(Expr_Var(Id("y"))), Print1>>),
     Stmt_Block(<<Stmt_Block(<<Stmt_Var(Id("y"), None)>>), PrintX>>)}
\* spec.md, section 8: if (0) print "truthy"; with an else branch
IfZero ==
    Stmt_If(Expr_Literal(Num(0)),
            Stmt_Print(Expr_Literal(Literal_String("truthy"))),
            Some(Stmt_Print(Expr_Literal(Literal_String("falsy")))))
IfPool ==
    {Stmt_If(c, Print1, e) :
        c \in {Expr_Literal(Literal_Nil), Expr_Literal(Literal_Bool(FALSE)),
               Expr_Literal(Literal_Bool(TRUE)), Expr_Literal(Num(0)),
               Expr_Literal(Literal_String("")),
               Expr_Var(Id("x")), Expr_Var(Id("y"))},
        e \in {None, Some(Print2)}}
    \cup {IfZero}
StmtPool ==
    {Stmt_Print(e) : e \in ExprPool} \cup {Stmt_Expr(e) : e \in AssignPool}
    \cup VarPool \cup BlockPool \cup IfPool

RECURSIVE SeqsUpTo(_, _)
SeqsUpTo(S, n) ==
    IF n = 0 THEN {<<>>}
    ELSE LET shorter == SeqsUpTo(S, n - 1)
         IN shorter \cup {Append(q, x) : q \in shorter, x \in S}

\* spec.md, section 8: var x = 1; { var x = 2; print x; } print x;
ProgramShadow ==
    <<Stmt_Var(Id("x"), Some(Expr_Literal(Num(1)))),
      Stmt_Block(<<Stmt_Var(Id("x"), Some(Expr_Literal(Num(2)))), PrintX>>),
      PrintX>>
\* spec.md, section 8: var x = 1; x = 2; print x;
ProgramAssign ==
    <<Stmt_Var(Id("x"), Some(Expr_Literal(Num(1)))),
      Stmt_Expr(Expr_Assignment(Id("x"), Expr_Literal(Num(2)))),
      PrintX>>
\* var x = 1; if (y) print 1; else print 2; print x;
ProgramIfError ==
    <<Stmt_Var(Id("x"), Some(Expr_Literal(Num(1)))),
      Stmt_If(Expr_Var(Id("y")), Print1, Some(Print2)),
      PrintX>>
\* var x = 1; print y; print x;
ProgramPrintError ==
    <<Stmt_Var(Id("x"), Some(Expr_Literal(Num(1)))),
      Stmt_Print(Expr_Var(Id("y"))),
      PrintX>>

\* the operands of the binary expressions: every kind of value, an
\* undefined variable, an assignment, and 0 / 0
OperandPool ==
    {Expr_Literal(l) :
        l \in {Literal_Nil, Literal_Bool(TRUE), Literal_Bool(FALSE), Num(0),
               Num(2), Literal_String(""), Literal_String("a"),
               Literal_String("1")}}
    \cup {Expr_Var(Id("x")), Expr_Var(Id("y")),
          Expr_Assignment(Id("x"), Expr_Literal(Num(3))),
          Expr_Binary(Expr_Literal(Num(0)), Tok("Slash", "/"),
                      Expr_Literal(Num(0)))}
BinaryOperators ==
    {Tok("Plus", "+"), Tok("Minus", "-"), Tok("Star", "*"), Tok("Slash", "/"),
     Tok("Greater", ">"), Tok("GreaterEqual", ">="), Tok("Less", "<"),
     Tok("LessEqual", "<="), Tok("EqualEqual", "=="), Tok("BangEqual", "!=")}
\* var x = 1; print l op r;
BinaryPrograms ==
    {<<Stmt_Var(Id("x"), Some(Expr_Literal(Num(1)))),
       Stmt_Print(Expr_Binary(l, op, r))>> :
        l \in OperandPool, op \in BinaryOperators, r \in OperandPool}

Programs ==
    SeqsUpTo(StmtPool, MaxStmts)
    \cup {ProgramShadow, ProgramAssign, ProgramIfError, ProgramPrintError}
    \cup BinaryPrograms

----------------------------------------------------------------------------
(* SpecInterp: Interpreter::new(), then interpret(stmts).                  *)

InterpIdle ==
    /\ stmts = <<>> /\ executed = <<>> /\ environment = Environment_new(None) /\ stdout = <<>>
    /\ runtime_errors = <<>> /\ interp_pc = "idle" /\ panic = NoPanic
ParserIdle ==
    /\ tokens = <<>> /\ current = 0 /\ statements = <<>>
    /\ parse_errors = <<>> /\ parser_pc = "idle"
ScannerIdle ==
    /\ source = <<>> /\ scan_start = 0 /\ scan_current = 0 /\ line = 1
    /\ scan_tokens_out = <<>> /\ lex_errors = <<>> /\ scanner_pc = "idle"

\* no call of the environment on its own
NoCall ==
    [op |-> "none", name |-> NoError.token, value |-> Literal_Nil, ok |-> TRUE,
     result |-> Literal_Nil, err |-> NoError]
EnvIdle == env_call = NoCall
\* no Lox: the scanner, the parser or the interpreter is called on its own
DriverIdle ==
    /\ had_error = FALSE /\ HAD_ERROR = FALSE /\ lines_read = 0
    /\ interpret_calls = 0 /\ run_pc = "idle"

InterpInit ==
    /\ stmts \in Programs
    /\ executed = <<>>
    /\ environment = Environment_new(None)
    /\ stdout = <<>>
    /\ runtime_errors = <<>>
    /\ interp_pc = "interpret"
    /\ panic = NoPanic
    /\ ParserIdle /\ ScannerIdle /\ EnvIdle /\ DriverIdle

InterpState ==
    [environment |-> environment, stdout |-> stdout,
     runtime_errors |-> runtime_errors, panic |-> NoPanic]

\* one iteration of the loop of interpret: interpret_stmt(s)
interpret_loop ==
    /\ interp_pc = "interpret" /\ stmts # <<>>
    /\ \E st \in {interpret_stmt(InterpState, Head(stmts))} :
          /\ environment' = st.environment
          /\ stdout' = st.stdout
          /\ runtime_errors' = st.runtime_errors
          /\ panic' = st.panic
          /\ interp_pc' = IF st.panic # NoPanic THEN "panicked" ELSE "interpret"
    /\ stmts' = Tail(stmts)
    /\ executed' = Append(executed, Head(stmts))
    /\ UNCHANGED <<parser_vars, scanner_vars, env_vars, driver_vars>>

\* the loop of interpret is over
interpret_return ==
    /\ interp_pc = "interpret" /\ stmts = <<>>
    /\ interp_pc' = "returned"
    /\ UNCHANGED <<stmts, executed, environment, stdout, runtime_errors, panic>>
    /\ UNCHANGED <<parser_vars, scanner_vars, env_vars, driver_vars>>

InterpNext == interpret_loop \/ interpret_return
SpecInterp == InterpInit /\ [][InterpNext]_vars

----------------------------------------------------------------------------
(* parser.rs: the primitive combinators.  The parser is its token vector   *)
(* and the cursor `current` (0-based, as in the code); every operator      *)
(* takes the cursor and returns the cursor it leaves.  An index past the   *)
(* end of the vector, or `current - 1` at current = 0, is a panic.         *)

ParseError(token, message) == [token |-> token, message |-> message]
NoParseError == ParseError(Token_new("Eof", "", None, 0), "")

\* &self.tokens[self.current] is out of bounds
peek_panics(toks, cur) == cur >= Len(toks)
\* self.current-1 underflows
previous_panics(cur) == cur = 0

Parser_peek(toks, cur) == toks[cur + 1]
Parser_previous(toks, cur) == toks[cur]
Parser_at_end(toks, cur) == Parser_peek(toks, cur).token_type = "Eof"

\* advance without its `if !self.at_end()`
Parser_advance_past_eof(toks, cur) ==
    IF peek_panics(toks, cur) THEN [cur |-> cur, panic |-> TRUE]
    ELSE [cur |-> cur + 1, panic |-> FALSE]
Parser_advance(toks, cur) ==
    IF peek_panics(toks, cur) THEN [cur |-> cur, panic |-> TRUE]
    ELSE LET c == IF ~Parser_at_end(toks, cur) THEN cur + 1 ELSE cur
         IN [cur |-> c, panic |-> previous_panics(c)]

check(toks, cur, token_type) ==
    IF Parser_at_end(toks, cur) THEN FALSE
    ELSE Parser_peek(toks, cur).token_type = token_type

Parser_match_(toks, cur, token_types) ==
    IF peek_panics(toks, cur)
    THEN [matched |-> FALSE, cur |-> cur, panic |-> TRUE]
    ELSE IF \E token_type \in token_types : check(toks, cur, token_type)
         THEN LET a == Parser_advance(toks, cur)
              IN [matched |-> TRUE, cur |-> a.cur, panic |-> a.panic]
         ELSE [matched |-> FALSE, cur |-> cur, panic |-> FALSE]

\* What a parsing method returns: Ok(node), Err(ParseError) or a panic, the
\* cursor it left, and the errors it handed to Lox::parse_error on the way.
POk(node, cur, reported) ==
    [tag |-> "Ok", node |-> node, cur |-> cur, err |-> NoParseError,
     reported |-> reported]
PErr(err, cur, reported) ==
    [tag |-> "Err", node |-> <<>>, cur |-> cur, err |-> err,
     reported |-> reported]
PPanic(cur, reported) ==
    [tag |-> "Panic", node |-> <<>>, cur |-> cur, err |-> NoParseError,
     reported |-> reported]

consume(toks, cur, token_type, message) ==
    IF peek_panics(toks, cur) THEN PPanic(cur, <<>>)
    ELSE IF check(toks, cur, token_type)
         THEN LET a == Parser_advance(toks, cur)
              IN IF a.panic THEN PPanic(a.cur, <<>>)
                 ELSE POk(Parser_previous(toks, a.cur), a.cur, <<>>)
         ELSE PErr(ParseError(Parser_peek(toks, cur), message), cur, <<>>)

SyncKeywords ==
    {"Class", "Fun", "Var", "For", "If", "While", "Print", "Return"}

RECURSIVE synchronize_loop(_, _)
\* the while loop of synchronize
synchronize_loop(toks, cur) ==
    IF peek_panics(toks, cur) THEN [cur |-> cur, panic |-> TRUE]
    ELSE IF Parser_at_end(toks, cur) THEN [cur |-> cur, panic |-> FALSE]
    ELSE IF previous_panics(cur) THEN [cur |-> cur, panic |-> TRUE]
    ELSE IF Parser_previous(toks, cur).token_type = "SemiColon"
         THEN [cur |-> cur, panic |-> FALSE]
    ELSE IF Parser_peek(toks, cur).token_type \in SyncKeywords
         THEN [cur |-> cur, panic |-> FALSE]
    ELSE With(Parser_advance(toks, cur),
              LAMBDA a : IF a.panic THEN a ELSE synchronize_loop(toks, a.cur))

\* synchronize without its first `self.advance()`
synchronize_without_advance(toks, cur) == synchronize_loop(toks, cur)
synchronize(toks, cur) ==
    With(Parser_advance(toks, cur),
         LAMBDA a : IF a.panic THEN a ELSE synchronize_loop(toks, a.cur))

----------------------------------------------------------------------------
(* parser.rs: expressions                                                  *)

RECURSIVE expression(_, _)
RECURSIVE assignment(_, _)
RECURSIVE or(_, _)
RECURSIVE or_loop(_, _, _)
RECURSIVE and(_, _)
RECURSIVE and_loop(_, _, _)
RECURSIVE equality(_, _)
RECURSIVE equality_loop(_, _, _)
RECURSIVE comparison(_, _)
RECURSIVE comparison_loop(_, _, _)
RECURSIVE term(_, _)
RECURSIVE term_loop(_, _, _)
RECURSIVE factor(_, _)
RECURSIVE factor_loop(_, _, _)
RECURSIVE unary(_, _)
RECURSIVE primary(_, _)
RECURSIVE primary_grouping(_, _)

expression(toks, cur) == assignment(toks, cur)

assignment(toks, cur) ==
    With(or(toks, cur),
         LAMBDA expr :
           IF expr.tag # "Ok" THEN expr
           ELSE With(Parser_match_(toks, expr.cur, {"Equal"}),
                     LAMBDA m :
                       IF m.panic THEN PPanic(m.cur, <<>>)
                       ELSE IF ~m.matched THEN expr
                       ELSE With(assignment(toks, m.cur),
                                 LAMBDA value :
                                   IF value.tag # "Ok" THEN value
                                   ELSE IF value.node[1] = "Assignment"
                                   THEN POk(Expr_Assignment(value.node[2],
                                                            value.node[3]),
                                            value.cur, <<>>)
                                   ELSE PErr(ParseError(
                                                 Parser_previous(toks, m.cur),
                                                 "Invalid assignment target."),
                                             value.cur, <<>>))))

\* the while loop of or
or_loop(toks, expr, cur) ==
    With(Parser_match_(toks, cur, {"And"}),
         LAMBDA m :
           IF m.panic THEN PPanic(m.cur, <<>>)
           ELSE IF ~m.matched THEN POk(expr, cur, <<>>)
           ELSE With(equality(toks, m.cur),
                     LAMBDA right :
                       IF right.tag # "Ok" THEN right
                       ELSE or_loop(toks,
                                Expr_Logical(expr, Parser_previous(toks, m.cur),
                                       right.node),
                                right.cur)))

or(toks, cur) ==
    With(and(toks, cur),
         LAMBDA expr : IF expr.tag # "Ok" THEN expr
                       ELSE or_loop(toks, expr.node, expr.cur))

\* the while loop of and
and_loop(toks, expr, cur) ==
    With(Parser_match_(toks, cur, {"And"}),
         LAMBDA m :
           IF m.panic THEN PPanic(m.cur, <<>>)
           ELSE IF ~m.matched THEN POk(expr, cur, <<>>)
           ELSE With(equality(toks, m.cur),
                     LAMBDA right :
                       IF right.tag # "Ok" THEN right
                       ELSE and_loop(toks,
                                Expr_Logical(expr, Parser_previous(toks, m.cur),
                                       right.node),
                                right.cur)))

and(toks, cur) ==
    With(equality(toks, cur),
         LAMBDA expr : IF expr.tag # "Ok" THEN expr
                       ELSE and_loop(toks, expr.node, expr.cur))

\* the while loop of equality
equality_loop(toks, expr, cur) ==
    With(Parser_match_(toks, cur, {"BangEqual", "EqualEqual"}),
         LAMBDA m :
           IF m.panic THEN PPanic(m.cur, <<>>)
           ELSE IF ~m.matched THEN POk(expr, cur, <<>>)
           ELSE With(comparison(toks, m.cur),
                     LAMBDA right :
                       IF right.tag # "Ok" THEN right
                       ELSE equality_loop(toks,
                                Expr_Binary(expr, Parser_previous(toks, m.cur),
                                       right.node),
                                right.cur)))

equality(toks, cur) ==
    With(comparison(toks, cur),
         LAMBDA expr : IF expr.tag # "Ok" THEN expr
                       ELSE equality_loop(toks, expr.node, expr.cur))

\* the while loop of comparison
comparison_loop(toks, expr, cur) ==
    With(Parser_match_(toks, cur, {"Greater", "GreaterEqual", "Less", "LessEqual"}),
         LAMBDA m :
           IF m.panic THEN PPanic(m.cur, <<>>)
           ELSE IF ~m.matched THEN POk(expr, cur, <<>>)
           ELSE With(term(toks, m.cur),
                     LAMBDA right :
                       IF right.tag # "Ok" THEN right
                       ELSE comparison_loop(toks,
                                Expr_Binary(expr, Parser_previous(toks, m.cur),
                                       right.node),
                                right.cur)))

comparison(toks, cur) ==
    With(term(toks, cur),
         LAMBDA expr : IF expr.tag # "Ok" THEN expr
                       ELSE comparison_loop(toks, expr.node, expr.cur))

\* the while loop of term
term_loop(toks, expr, cur) ==
    With(Parser_match_(toks, cur, {"Minus", "Plus"}),
         LAMBDA m :
           IF m.panic THEN PPanic(m.cur, <<>>)
           ELSE IF ~m.matched THEN POk(expr, cur, <<>>)
           ELSE With(unary(toks, m.cur),
                     LAMBDA right :
                       IF right.tag # "Ok" THEN right
                       ELSE term_loop(toks,
                                Expr_Binary(expr, Parser_previous(toks, m.cur),
                                       right.node),
                                right.cur)))

term(toks, cur) ==
    With(factor(toks, cur),
         LAMBDA expr : IF expr.tag # "Ok" THEN expr
                       ELSE term_loop(toks, expr.node, expr.cur))

\* the while loop of factor
factor_loop(toks, expr, cur) ==
    With(Parser_match_(toks, cur, {"Slash", "Star"}),
         LAMBDA m :
           IF m.panic THEN PPanic(m.cur, <<>>)
           ELSE IF ~m.matched THEN POk(expr, cur, <<>>)
           ELSE With(unary(toks, m.cur),
                     LAMBDA right :
                       IF right.tag # "Ok" THEN right
                       ELSE factor_loop(toks,
                                Expr_Binary(expr, Parser_previous(toks, m.cur),
                                       right.node),
                                right.cur)))

factor(toks, cur) ==
    With(unary(toks, cur),
         LAMBDA expr : IF expr.tag # "Ok" THEN expr
                       ELSE factor_loop(toks, expr.node, expr.cur))

unary(toks, cur) ==
    With(Parser_match_(toks, cur, {"Bang", "Minus"}),
         LAMBDA m :
           IF m.panic THEN PPanic(m.cur, <<>>)
           ELSE IF ~m.matched THEN primary(toks, cur)
           ELSE With(unary(toks, m.cur),
                     LAMBDA right :
                       IF right.tag # "Ok" THEN right
                       ELSE POk(Expr_Unary(Parser_previous(toks, m.cur),
                                           right.node),
                                right.cur, <<>>)))

\* the arm `if self.match_(&vec![TokenType::LeftParen])` of primary
primary_grouping(toks, cur) ==
    With(expression(toks, cur),
         LAMBDA expr :
           IF expr.tag # "Ok" THEN expr
           ELSE With(consume(toks, expr.cur, "RightParen",
                             "Expect ')' after expression."),
                     LAMBDA right_paren_exists :
                       IF right_paren_exists.tag # "Ok" THEN right_paren_exists
                       ELSE POk(Expr_Grouping(expr.node),
                                right_paren_exists.cur, <<>>)))

primary(toks, cur) ==
    LET false_ == Parser_match_(toks, cur, {"False"})
        true_ == Parser_match_(toks, cur, {"True"})
        nil == Parser_match_(toks, cur, {"Nil"})
        lit == Parser_match_(toks, cur, {"Number", "String"})
        ident == Parser_match_(toks, cur, {"Identifier"})
        paren == Parser_match_(toks, cur, {"LeftParen"})
    IN IF false_.panic THEN PPanic(false_.cur, <<>>)
       ELSE IF false_.matched
       THEN POk(Expr_Literal(Literal_Bool(FALSE)), false_.cur, <<>>)
       ELSE IF true_.matched
       THEN POk(Expr_Literal(Literal_Bool(TRUE)), true_.cur, <<>>)
       ELSE IF nil.matched
       THEN POk(Expr_Literal(Literal_Nil), nil.cur, <<>>)
       ELSE IF lit.matched
       THEN (IF is_none(Parser_previous(toks, lit.cur).literal)
             THEN PPanic(lit.cur, <<>>)
             ELSE POk(Expr_Literal(unwrap(Parser_previous(toks, lit.cur).literal)),
                      lit.cur, <<>>))
       ELSE IF ident.matched
       THEN POk(Expr_Var(Parser_previous(toks, ident.cur)), ident.cur, <<>>)
       ELSE IF paren.matched THEN primary_grouping(toks, paren.cur)
       ELSE PErr(ParseError(Parser_peek(toks, cur), "Expect expression."),
                 cur, <<>>)

----------------------------------------------------------------------------
(* parser.rs: declarations and statements                                  *)

RECURSIVE declaration(_, _)
RECURSIVE statement(_, _)
RECURSIVE block_statement(_, _)
RECURSIVE block_loop(_, _, _, _)
RECURSIVE if_statement(_, _)
RECURSIVE if_statement_then(_, _, _)
RECURSIVE if_statement_else(_, _, _)

\* the `;` that closes a var declaration
var_declaration_end(toks, name, initializer, cur) ==
    With(consume(toks, cur, "SemiColon", "Expect ';' after variable declaration"),
         LAMBDA semi : IF semi.tag # "Ok" THEN semi
                       ELSE POk(Stmt_Var(name, initializer), semi.cur, <<>>))

var_declaration(toks, cur) ==
    With(consume(toks, cur, "Identifier", "Expect variable name"),
         LAMBDA name :
           IF name.tag # "Ok" THEN name
           ELSE With(Parser_match_(toks, name.cur, {"Equal"}),
                     LAMBDA m :
                       IF m.panic THEN PPanic(m.cur, <<>>)
                       ELSE IF ~m.matched
                       THEN var_declaration_end(toks, name.node, None, m.cur)
                       ELSE With(expression(toks, m.cur),
                                 LAMBDA init :
                                   IF init.tag # "Ok" THEN init
                                   ELSE var_declaration_end(toks, name.node,
                                            Some(init.node), init.cur))))

print_statement(toks, cur) ==
    With(expression(toks, cur),
         LAMBDA value :
           IF value.tag # "Ok" THEN value
           ELSE With(consume(toks, value.cur, "SemiColon",
                             "Expect ';' after value."),
                     LAMBDA semicolon_exists :
                       IF semicolon_exists.tag # "Ok" THEN semicolon_exists
                       ELSE POk(Stmt_Print(value.node), semicolon_exists.cur,
                                <<>>)))

expression_statement(toks, cur) ==
    With(expression(toks, cur),
         LAMBDA expr :
           IF expr.tag # "Ok" THEN expr
           ELSE With(consume(toks, expr.cur, "SemiColon",
                             "Expect ';' after expression."),
                     LAMBDA semicolon_exists :
                       IF semicolon_exists.tag # "Ok" THEN semicolon_exists
                       ELSE POk(Stmt_Expr(expr.node), semicolon_exists.cur,
                                <<>>)))

\* the while loop of block_statement, then the closing brace
block_loop(toks, ss, cur, reported) ==
    IF peek_panics(toks, cur) THEN PPanic(cur, reported)
    ELSE IF ~check(toks, cur, "RightBrace") /\ ~Parser_at_end(toks, cur)
    THEN With(declaration(toks, cur),
              LAMBDA d :
                IF d.tag = "Panic" THEN PPanic(d.cur, reported \o d.reported)
                ELSE block_loop(toks,
                         IF d.tag = "Ok" THEN Append(ss, d.node) ELSE ss,
                         d.cur, reported \o d.reported))
    ELSE With(consume(toks, cur, "RightBrace", "Expect '}' after block"),
              LAMBDA brace :
                IF brace.tag = "Panic" THEN PPanic(brace.cur, reported)
                ELSE IF brace.tag = "Err"
                THEN PErr(brace.err, brace.cur, reported)
                ELSE POk(Stmt_Block(ss), brace.cur, reported))

block_statement(toks, cur) == block_loop(toks, <<>>, cur, <<>>)

\* if_statement from `if self.match_(&vec![TokenType::Else])` on
if_statement_else(toks, condition, then_branch) ==
    With(Parser_match_(toks, then_branch.cur, {"Else"}),
         LAMBDA m :
           IF m.panic THEN PPanic(m.cur, then_branch.reported)
           ELSE IF ~m.matched
           THEN POk(Stmt_If(condition, then_branch.node, None), m.cur,
                    then_branch.reported)
           ELSE With(statement(toks, m.cur),
                     LAMBDA else_branch :
                       IF else_branch.tag # "Ok"
                       THEN [else_branch EXCEPT !.reported =
                                 then_branch.reported \o @]
                       ELSE POk(Stmt_If(condition, then_branch.node,
                                        Some(else_branch.node)),
                                else_branch.cur,
                                then_branch.reported \o else_branch.reported)))

\* if_statement from `let then_branch = self.statement()?` on
if_statement_then(toks, condition, cur) ==
    With(statement(toks, cur),
         LAMBDA then_branch :
           IF then_branch.tag # "Ok" THEN then_branch
           ELSE if_statement_else(toks, condition, then_branch))

if_statement(toks, cur) ==
    With(consume(toks, cur, "LeftBrace", "Expect '(' after if"),
         LAMBDA lparen :
           IF lparen.tag # "Ok" THEN lparen
           ELSE With(expression(toks, lparen.cur),
                     LAMBDA condition :
                       IF condition.tag # "Ok" THEN condition
                       ELSE With(consume(toks, condition.cur, "RightBrace",
                                         "Expect ')' after if condition"),
                                 LAMBDA rparen :
                                   IF rparen.tag # "Ok" THEN rparen
                                   ELSE if_statement_then(toks, condition.node,
                                                          rparen.cur))))

statement(toks, cur) ==
    LET print == Parser_match_(toks, cur, {"Print"})
        brace == Parser_match_(toks, cur, {"LeftBrace"})
        if_ == Parser_match_(toks, cur, {"If"})
    IN IF print.panic THEN PPanic(print.cur, <<>>)
       ELSE IF print.matched THEN print_statement(toks, print.cur)
       ELSE IF brace.matched THEN block_statement(toks, brace.cur)
       ELSE IF if_.matched THEN if_statement(toks, if_.cur)
       ELSE expression_statement(toks, cur)

\* the Err arms of declaration: synchronize, then Lox::parse_error
declaration_recover(toks, r) ==
    With(synchronize(toks, r.cur),
         LAMBDA sync :
           IF sync.panic THEN PPanic(sync.cur, r.reported)
           ELSE PErr(r.err, sync.cur, Append(r.reported, r.err)))

\* Some(s) is tag "Ok"; None is tag "Err", with the cursor where synchronize
\* left it.
declaration(toks, cur) ==
    With(Parser_match_(toks, cur, {"Var"}),
         LAMBDA m :
           IF m.panic THEN PPanic(m.cur, <<>>)
           ELSE With(IF m.matched THEN var_declaration(toks, m.cur)
                     ELSE statement(toks, cur),
                     LAMBDA r : IF r.tag # "Err" THEN r
                                ELSE declaration_recover(toks, r)))

----------------------------------------------------------------------------
(* The token sequences given to the parser: what scan_tokens returns, a    *)
(* sequence of tokens closed by one Eof.                                   *)

NumberTok(lexeme, i) == Token_new("Number", lexeme, Some(Num(i)), 1)
EofTok == Token_new("Eof", "", None, 1)

T_print == Tok("Print", "print")
T_var == Tok("Var", "var")
T_if == Tok("If", "if")
T_else == Tok("Else", "else")
T_or == Tok("Or", "or")
T_and == Tok("And", "and")
T_false == Tok("False", "false")
T_true == Tok("True", "true")
T_semi == Tok("SemiColon", ";")
T_equal == Tok("Equal", "=")
T_plus == Tok("Plus", "+")
T_star == Tok("Star", "*")
T_lparen == Tok("LeftParen", "(")
T_rparen == Tok("RightParen", ")")
T_lbrace == Tok("LeftBrace", "{")
T_rbrace == Tok("RightBrace", "}")
T_1 == NumberTok("1", 1)
T_2 == NumberTok("2", 2)

\* free-form sequences over these tokens
Alphabet ==
    {T_print, T_var, T_if, Id("x"), T_1, T_semi, T_equal, T_plus,
     T_lbrace, T_rbrace}

\* primary operands, each with the expression primary makes of it
Operands ==
    {[toks |-> <<Id(n)>>, expr |-> Expr_Var(Id(n))] : n \in {"a", "b", "c"}}
    \cup {[toks |-> <<T_1>>, expr |-> Expr_Literal(Num(1))],
          [toks |-> <<T_true>>, expr |-> Expr_Literal(Literal_Bool(TRUE))]}

\* x = e ;   and   a = b = c ;   each with the statement of the grammar
AssignmentCases ==
    {[toks |-> <<Id(n), T_equal>> \o e.toks \o <<T_semi>>,
      stmt |-> Stmt_Expr(Expr_Assignment(Id(n), e.expr))] :
        n \in {"a", "b"}, e \in Operands}
    \cup {[toks |-> <<Id("a"), T_equal, Id("b"), T_equal, Id("c"), T_semi>>,
           stmt |-> Stmt_Expr(Expr_Assignment(Id("a"),
                        Expr_Assignment(Id("b"), Expr_Var(Id("c")))))]}
AssignmentInputs == {c.toks : c \in AssignmentCases}

\* simple statements, each with the statement the grammar makes of it
SimpleStmts ==
    {[toks |-> <<T_print, T_1, T_semi>>, stmt |-> Print1],
     [toks |-> <<T_print, T_2, T_semi>>, stmt |-> Print2],
     [toks |-> <<Id("a"), T_semi>>, stmt |-> Stmt_Expr(Expr_Var(Id("a")))]}
IfConditions ==
    {[toks |-> <<T_false>>, expr |-> Expr_Literal(Literal_Bool(FALSE))],
     [toks |-> <<T_1>>, expr |-> Expr_Literal(Num(1))],
     [toks |-> <<Id("a")>>, expr |-> Expr_Var(Id("a"))]}

\* if ( c ) s   and   if ( c ) s else s   each with the statement of the
\* grammar
IfCases ==
    {[toks |-> <<T_if, T_lparen>> \o c.toks \o <<T_rparen>> \o t.toks,
      stmt |-> Stmt_If(c.expr, t.stmt, None)] :
        c \in IfConditions, t \in SimpleStmts}
    \cup {[toks |-> <<T_if, T_lparen>> \o c.toks \o <<T_rparen>> \o t.toks
                        \o <<T_else>> \o e.toks,
           stmt |-> Stmt_If(c.expr, t.stmt, Some(e.stmt))] :
            c \in IfConditions, t \in SimpleStmts, e \in SimpleStmts}
IfInputs == {c.toks : c \in IfCases}

\* if { c } s   and   if { c } s else s: what if_statement accepts
IfBraceInputs ==
    {<<T_if, T_lbrace>> \o c.toks \o <<T_rbrace>> \o t.toks :
        c \in IfConditions, t \in SimpleStmts}
    \cup {<<T_if, T_lbrace>> \o c.toks \o <<T_rbrace>> \o t.toks
              \o <<T_else>> \o e.toks :
            c \in IfConditions, t \in SimpleStmts, e \in SimpleStmts}

\* a + b * c ;   and   a * b + c ;   each with the statement of the grammar
PrecedenceCases ==
    {[toks |-> a.toks \o <<T_plus>> \o b.toks \o <<T_star>> \o c.toks
                   \o <<T_semi>>,
      stmt |-> Stmt_Expr(Expr_Binary(a.expr, T_plus,
                   Expr_Binary(b.expr, T_star, c.expr)))] :
        a \in Operands, b \in Operands, c \in Operands}
    \cup {[toks |-> a.toks \o <<T_star>> \o b.toks \o <<T_plus>> \o c.toks
                        \o <<T_semi>>,
           stmt |-> Stmt_Expr(Expr_Binary(
                        Expr_Binary(a.expr, T_star, b.expr), T_plus, c.expr))] :
            a \in Operands, b \in Operands, c \in Operands}
PrecedenceInputs == {c.toks : c \in PrecedenceCases}

\* a or b ;   and   a or b and c ;   each with the statement of the grammar
LogicalOrCases ==
    {[toks |-> a.toks \o <<T_or>> \o b.toks \o <<T_semi>>,
      stmt |-> Stmt_Expr(Expr_Logical(a.expr, T_or, b.expr))] :
        a \in Operands, b \in Operands}
    \cup {[toks |-> a.toks \o <<T_or>> \o b.toks \o <<T_and>> \o c.toks
                        \o <<T_semi>>,
           stmt |-> Stmt_Expr(Expr_Logical(a.expr, T_or,
                        Expr_Logical(b.expr, T_and, c.expr)))] :
            a \in Operands, b \in Operands, c \in Operands}
\* a and b ;
LogicalAndCases ==
    {[toks |-> a.toks \o <<T_and>> \o b.toks \o <<T_semi>>,
      stmt |-> Stmt_Expr(Expr_Logical(a.expr, T_and, b.expr))] :
        a \in Operands, b \in Operands}
LogicalInputs == {c.toks : c \in LogicalOrCases \cup LogicalAndCases}

\* malformed statements: closed by their `;`, or cut off before it
MalformedClosed ==
    {<<T_1, T_1, T_semi>>, <<T_print, T_semi>>, <<T_var, T_1, T_semi>>,
     <<T_print, T_1, T_plus, T_semi>>, <<T_rparen, T_semi>>}
MalformedOpen ==
    {<<T_print, T_1>>, <<T_var, Id("a")>>, <<Id("a"), T_plus, T_1>>, <<T_var>>}

\* statements the parser accepts as the grammar says, with their nodes
WellFormed ==
    {[toks |-> <<T_print, T_2, T_semi>>, stmt |-> Print2],
     [toks |-> <<T_var, Id("b"), T_semi>>, stmt |-> Stmt_Var(Id("b"), None)],
     [toks |-> <<T_var, Id("b"), T_equal, T_2, T_semi>>,
      stmt |-> Stmt_Var(Id("b"), Some(Expr_Literal(Num(2))))]}

\* a malformed statement, then a well-formed one
RecoveryCases ==
    {[toks |-> bad \o good.toks, stmt |-> good.stmt] :
        bad \in MalformedClosed \cup MalformedOpen, good \in WellFormed}
RecoveryInputs == {c.toks : c \in RecoveryCases}

TokenInputs ==
    {q \o <<EofTok>> :
        q \in SeqsUpTo(Alphabet, MaxTokens) \cup AssignmentInputs \cup IfInputs
              \cup IfBraceInputs \cup PrecedenceInputs \cup LogicalInputs
              \cup RecoveryInputs}

----------------------------------------------------------------------------
(* SpecParse: Parser::new(tokens), then parse().                           *)

ParseInit ==
    /\ tokens \in TokenInputs
    /\ current = 0
    /\ statements = <<>>
    /\ parse_errors = <<>>
    /\ parser_pc = "parse"
    /\ InterpIdle /\ ScannerIdle /\ EnvIdle /\ DriverIdle

\* one iteration of the loop of parse: a declaration, pushed when it is Some
parse_loop ==
    /\ parser_pc = "parse"
    /\ ~peek_panics(tokens, current) /\ ~Parser_at_end(tokens, current)
    /\ \E d \in {declaration(tokens, current)} :
          /\ current' = d.cur
          /\ statements' = IF d.tag = "Ok" THEN Append(statements, d.node)
                           ELSE statements
          /\ parse_errors' = parse_errors \o d.reported
          /\ parser_pc' = IF d.tag = "Panic" THEN "panicked" ELSE "parse"
    /\ UNCHANGED tokens
    /\ UNCHANGED <<interp_vars, scanner_vars, env_vars, driver_vars>>

\* the loop of parse is over: at_end(), or its peek() panics
parse_return ==
    /\ parser_pc = "parse"
    /\ peek_panics(tokens, current) \/ Parser_at_end(tokens, current)
    /\ parser_pc' = IF peek_panics(tokens, current) THEN "panicked"
                    ELSE "returned"
    /\ UNCHANGED <<tokens, current, statements, parse_errors>>
    /\ UNCHANGED <<interp_vars, scanner_vars, env_vars, driver_vars>>

ParseNext == parse_loop \/ parse_return
SpecParse == ParseInit /\ [][ParseNext]_vars

\* Parser::new(tokens): the parser takes its token vector, cursor at 0
Parser_new ==
    /\ parser_pc = "idle"
    /\ tokens' \in TokenInputs
    /\ current' = 0
    /\ parser_pc' = "parse"
    /\ UNCHANGED <<statements, parse_errors>>
    /\ UNCHANGED <<interp_vars, scanner_vars, env_vars, driver_vars>>

\* The same calls, from the state before Parser::new; parse() is one call:
\* once begun it runs on until it returns or panics.
ParseFairInit ==
    ParserIdle /\ InterpIdle /\ ScannerIdle /\ EnvIdle /\ DriverIdle
ParseFairNext == Parser_new \/ parse_loop \/ parse_return
\* Weak fairness of the loop of parse, WF_vars(ParseNext), with its ENABLED
\* written out: an iteration or the return of parse is possible exactly
\* when parser_pc = "parse", and they are the only steps taken from there.
ParseFairness ==
    \/ []<>(parser_pc # "parse")
    \/ []<><<parser_pc = "parse">>_vars
SpecParseFair == ParseFairInit /\ [][ParseFairNext]_vars /\ ParseFairness

----------------------------------------------------------------------------
(* scanner.rs.  The source is a String: a sequence of chars, each encoded  *)
(* in UTF-8 on len_utf8 bytes.  A char is written as a one-character       *)
(* string, and a char outside ASCII as its code point, "U+00E9".           *)
(* String::len counts bytes; chars().nth(n) counts chars.  The scanner's   *)
(* state is the record [start, current, line, tokens, errors, panicked];   *)
(* errors holds the calls of Lox::error.                                   *)

Digits == {"0", "1", "2", "3", "4", "5", "6", "7", "8", "9"}
AsciiLetters ==
    {"a", "b", "c", "d", "e", "f", "g", "h", "i", "j", "k", "l", "m", "n",
     "o", "p", "q", "r", "s", "t", "u", "v", "w", "x", "y", "z",
     "A", "B", "C", "D", "E", "F", "G", "H", "I", "J", "K", "L", "M", "N",
     "O", "P", "Q", "R", "S", "T", "U", "V", "W", "X", "Y", "Z"}
\* U+00E9 (e with acute accent) is a letter on two bytes, U+20AC (euro sign)
\* a symbol on three bytes
NonAsciiLetters == {"U+00E9"}
NUL == "NUL"

len_utf8(c) == IF c = "U+00E9" THEN 2 ELSE IF c = "U+20AC" THEN 3 ELSE 1
is_digit(c) == c \in Digits
is_alphabetic(c) == c \in AsciiLetters \cup NonAsciiLetters
is_alphanumeric(c) == is_alphabetic(c) \/ is_digit(c)

RECURSIVE String_len(_)
String_len(src) ==
    IF src = <<>> THEN 0 ELSE len_utf8(Head(src)) + String_len(Tail(src))

chars_nth(src, n) == IF n < Len(src) THEN Some(src[n + 1]) ELSE None

\* chars().skip(start).take(current - start).collect::<String>()
RECURSIVE collect(_, _, _)
collect(src, from, n) ==
    IF n = 0 \/ from >= Len(src) THEN ""
    ELSE src[from + 1] \o collect(src, from + 1, n - 1)
text(src, sc) == collect(src, sc.start, sc.current - sc.start)

KEYWORDS ==
    [w \in {"and", "class", "else", "false", "for", "fun", "if", "nil", "or",
            "print", "return", "super", "this", "true", "var", "while"} |->
        CASE w = "and" -> "And" [] w = "class" -> "Class"
          [] w = "else" -> "Else" [] w = "false" -> "False"
          [] w = "for" -> "For" [] w = "fun" -> "Fun" [] w = "if" -> "If"
          [] w = "nil" -> "Nil" [] w = "or" -> "Or" [] w = "print" -> "Print"
          [] w = "return" -> "Return" [] w = "super" -> "Super"
          [] w = "this" -> "This" [] w = "true" -> "True"
          [] w = "var" -> "Var" [] w = "while" -> "While"]

Scanner_new ==
    [start |-> 0, current |-> 0, line |-> 1, tokens |-> <<>>, errors |-> <<>>,
     panicked |-> FALSE]

Scanner_at_end(src, sc) == sc.current >= String_len(src)

Lox_error(sc, message) ==
    [sc EXCEPT !.errors = Append(@, [line |-> sc.line, message |-> message])]

add_full_token(src, sc, token_type, literal) ==
    [sc EXCEPT !.tokens =
        Append(@, Token_new(token_type, text(src, sc), literal, sc.line))]

add_token(src, sc, token_type) ==
    add_full_token(src, sc, token_type, Some(Literal_Nil))

\* [c, panicked]
Scanner_peek(src, sc) ==
    IF Scanner_at_end(src, sc) THEN [c |-> NUL, panicked |-> FALSE]
    ELSE IF is_none(chars_nth(src, sc.current))
    THEN [c |-> NUL, panicked |-> TRUE]
    ELSE [c |-> unwrap(chars_nth(src, sc.current)), panicked |-> FALSE]

peek_next(src, sc) ==
    IF sc.current + 1 >= String_len(src) THEN [c |-> NUL, panicked |-> FALSE]
    ELSE IF is_none(chars_nth(src, sc.current + 1))
    THEN [c |-> NUL, panicked |-> TRUE]
    ELSE [c |-> unwrap(chars_nth(src, sc.current + 1)), panicked |-> FALSE]

\* [c, sc]
Scanner_advance(src, sc) ==
    IF is_none(chars_nth(src, sc.current))
    THEN [c |-> NUL, sc |-> [sc EXCEPT !.panicked = TRUE]]
    ELSE [c |-> unwrap(chars_nth(src, sc.current)),
          sc |-> [sc EXCEPT !.current = @ + 1]]

\* [matched, sc]
Scanner_match_(src, sc, expected) ==
    IF Scanner_at_end(src, sc) THEN [matched |-> FALSE, sc |-> sc]
    ELSE IF is_none(chars_nth(src, sc.current))
    THEN [matched |-> FALSE, sc |-> [sc EXCEPT !.panicked = TRUE]]
    ELSE IF unwrap(chars_nth(src, sc.current)) # expected
    THEN [matched |-> FALSE, sc |-> sc]
    ELSE [matched |-> TRUE, sc |-> [sc EXCEPT !.current = @ + 1]]

\* the loop `while self.peek() != '\n' && !self.at_end()` of a comment
RECURSIVE comment_loop(_, _)
comment_loop(src, sc) ==
    With(Scanner_peek(src, sc),
         LAMBDA p :
           IF p.panicked THEN [sc EXCEPT !.panicked = TRUE]
           ELSE IF p.c # "\n" /\ ~Scanner_at_end(src, sc)
           THEN With(Scanner_advance(src, sc),
                     LAMBDA a : IF a.sc.panicked THEN a.sc
                                ELSE comment_loop(src, a.sc))
           ELSE sc)

\* the loop `while self.peek() != '"' && !self.at_end()` of string
RECURSIVE string_loop(_, _)
string_loop(src, sc) ==
    With(Scanner_peek(src, sc),
         LAMBDA p :
           IF p.panicked THEN [sc EXCEPT !.panicked = TRUE]
           ELSE IF p.c # "\"" /\ ~Scanner_at_end(src, sc)
           THEN With(Scanner_advance(src,
                         IF p.c = "\n" THEN [sc EXCEPT !.line = @ + 1] ELSE sc),
                     LAMBDA a : IF a.sc.panicked THEN a.sc
                                ELSE string_loop(src, a.sc))
           ELSE sc)

\* string after its loop: the closing quote and the token
string_close(src, sc) ==
    IF Scanner_at_end(src, sc) THEN Lox_error(sc, "Unterminated string.")
    ELSE With(Scanner_advance(src, sc),
              LAMBDA a :
                IF a.sc.panicked THEN a.sc
                ELSE add_full_token(src, a.sc, "String",
                                    Some(Literal_String(text(src, a.sc)))))

string(src, sc) ==
    With(string_loop(src, sc),
         LAMBDA l : IF l.panicked THEN l ELSE string_close(src, l))

\* the loops `while self.peek().is_digit(10)` of number
RECURSIVE digits_loop(_, _)
digits_loop(src, sc) ==
    With(Scanner_peek(src, sc),
         LAMBDA p :
           IF p.panicked THEN [sc EXCEPT !.panicked = TRUE]
           ELSE IF is_digit(p.c)
           THEN With(Scanner_advance(src, sc),
                     LAMBDA a : IF a.sc.panicked THEN a.sc
                                ELSE digits_loop(src, a.sc))
           ELSE sc)

digit_value(c) ==
    CASE c = "0" -> 0 [] c = "1" -> 1 [] c = "2" -> 2 [] c = "3" -> 3
      [] c = "4" -> 4 [] c = "5" -> 5 [] c = "6" -> 6 [] c = "7" -> 7
      [] c = "8" -> 8 [] c = "9" -> 9

\* str::parse::<f64> on DIGIT+ ( "." DIGIT+ )?, the only texts number gives
\* it: the digits before the point make n, each digit after it multiplies
\* the denominator by ten.  The value is kept exact.
RECURSIVE parse_f64_from(_, _, _, _, _, _)
parse_f64_from(src, from, to, n, d, fraction) ==
    IF from >= to \/ from >= Len(src) THEN f64(n, d)
    ELSE IF src[from + 1] = "."
    THEN parse_f64_from(src, from + 1, to, n, d, TRUE)
    ELSE parse_f64_from(src, from + 1, to, 10 * n + digit_value(src[from + 1]),
                        IF fraction THEN 10 * d ELSE d, fraction)
parse_f64(src, sc) == parse_f64_from(src, sc.start, sc.current, 0, 1, FALSE)

\* number after its first loop: the fractional part
number_fraction(src, sc) ==
    With(Scanner_peek(src, sc),
         LAMBDA p :
           IF p.panicked THEN [sc EXCEPT !.panicked = TRUE]
           ELSE IF p.c # "." THEN sc
           ELSE With(peek_next(src, sc),
                     LAMBDA n :
                       IF n.panicked THEN [sc EXCEPT !.panicked = TRUE]
                       ELSE IF ~is_digit(n.c) THEN sc
                       ELSE With(Scanner_advance(src, sc),
                                 LAMBDA a : IF a.sc.panicked THEN a.sc
                                            ELSE digits_loop(src, a.sc))))

number(src, sc) ==
    With(digits_loop(src, sc),
         LAMBDA l :
           IF l.panicked THEN l
           ELSE With(number_fraction(src, l),
                     LAMBDA f :
                       IF f.panicked THEN f
                       ELSE add_full_token(src, f, "Number",
                                Some(Literal_Number(parse_f64(src, f))))))

\* the loop `while self.peek().is_alphanumeric()` of identifier
RECURSIVE identifier_loop(_, _)
identifier_loop(src, sc) ==
    With(Scanner_peek(src, sc),
         LAMBDA p :
           IF p.panicked THEN [sc EXCEPT !.panicked = TRUE]
           ELSE IF is_alphanumeric(p.c)
           THEN With(Scanner_advance(src, sc),
                     LAMBDA a : IF a.sc.panicked THEN a.sc
                                ELSE identifier_loop(src, a.sc))
           ELSE sc)

identifier(src, sc) ==
    With(identifier_loop(src, sc),
         LAMBDA l :
           IF l.panicked THEN l
           ELSE add_token(src, l,
                          IF text(src, l) \in DOMAIN KEYWORDS
                          THEN KEYWORDS[text(src, l)] ELSE "Identifier"))

\* the arms `'!'`, `'='`, `'<'`, `'>'` of scan_token
one_or_two(src, sc, two, one) ==
    With(Scanner_match_(src, sc, "="),
         LAMBDA m : IF m.sc.panicked THEN m.sc
                    ELSE add_token(src, m.sc, IF m.matched THEN two ELSE one))

\* the arm `'/'` of scan_token
slash(src, sc) ==
    With(Scanner_match_(src, sc, "/"),
         LAMBDA m : IF m.sc.panicked THEN m.sc
                    ELSE IF m.matched THEN comment_loop(src, m.sc)
                    ELSE add_token(src, m.sc, "Slash"))

\* the match of scan_token on the char that advance returned
scan_token_match(src, sc, c) ==
    CASE c = "(" -> add_token(src, sc, "LeftParen")
      [] c = ")" -> add_token(src, sc, "RightParen")
      [] c = "{" -> add_token(src, sc, "LeftBrace")
      [] c = "}" -> add_token(src, sc, "RightBrace")
      [] c = "," -> add_token(src, sc, "Comma")
      [] c = "." -> add_token(src, sc, "Dot")
      [] c = "-" -> add_token(src, sc, "Minus")
      [] c = "+" -> add_token(src, sc, "Plus")
      [] c = ";" -> add_token(src, sc, "SemiColon")
      [] c = "*" -> add_token(src, sc, "Star")
      [] c = "!" -> one_or_two(src, sc, "BangEqual", "Bang")
      [] c = "=" -> one_or_two(src, sc, "EqualEqual", "Equal")
      [] c = "<" -> one_or_two(src, sc, "LessEqual", "Less")
      [] c = ">" -> one_or_two(src, sc, "GreaterEqual", "Greater")
      [] c = "/" -> slash(src, sc)
      [] c \in {" ", "\r", "\t"} -> sc
      [] c = "\n" -> [sc EXCEPT !.line = @ + 1]
      [] c = "\"" -> string(src, sc)
      [] OTHER -> IF is_digit(c) THEN number(src, sc)
                  ELSE IF is_alphabetic(c) THEN identifier(src, sc)
                  ELSE Lox_error(sc, "Unexpected character.")

scan_token(src, sc) ==
    With(Scanner_advance(src, sc),
         LAMBDA a : IF a.sc.panicked THEN a.sc
                    ELSE scan_token_match(src, a.sc, a.c))

\* scan_tokens as a function of the source: the loop from the state sc on,
\* then the Eof token; a panic ends it
RECURSIVE scan_tokens_from(_, _)
scan_tokens_from(src, sc) ==
    IF sc.panicked THEN sc
    ELSE IF Scanner_at_end(src, sc)
    THEN [sc EXCEPT !.tokens = Append(@, Token_new("Eof", "", None, sc.line))]
    ELSE scan_tokens_from(src, scan_token(src, [sc EXCEPT !.start = sc.current]))

scan_tokens(src) == scan_tokens_from(src, Scanner_new)

----------------------------------------------------------------------------
(* The sources given to the scanner.                                       *)

SourceChars ==
    {"1", ".", "a", "_", "\"", "=", "/", "\n", " ", "@", "U+00E9", "U+20AC"}

SourceExamples ==
    {<<"o", "r">>, <<"v", "a", "r", " ", "a", "_", "b", ";">>,
     <<"/", "/", "a", "\n", "1", ".", "1">>,
     <<"1", ".", "5", "+", "2">>,
     <<"\"", "a", "\n", "b", "\"", "!", "=">>,
     <<"p", "r", "i", "n", "t", " ", "\"", "a">>,
     <<"a", "=", "\"", "U+00E9", "\"", ";">>,
     <<"/", "/", "a", "\n", "1">>, <<"/", "/", " ", "=", "\n", "a", "=">>,
     <<"/", "/", "\"", "\n", "\"", "a", "\"">>, <<"/", "/", "a", "1", " ", "=">>,
     <<"/", "/", "U+00E9", "\n">>, <<"/", "/", "U+00E9", "\n", "1">>,
     <<"a", "=", "\"", "a", "\n", "b">>, <<"1", " ", "\"", "U+00E9">>,
     <<"f", "o", "o", "_", "b", "a", "r">>, <<"_", "x", "1">>}

Sources == SeqsUpTo(SourceChars, MaxSource) \cup SourceExamples

----------------------------------------------------------------------------
(* SpecScan: Scanner::new(source), then scan_tokens().                     *)

ScanState ==
    [start |-> scan_start, current |-> scan_current, line |-> line,
     tokens |-> scan_tokens_out, errors |-> lex_errors, panicked |-> FALSE]

ScanInit ==
    /\ source \in Sources
    /\ scan_start = Scanner_new.start
    /\ scan_current = Scanner_new.current
    /\ line = Scanner_new.line
    /\ scan_tokens_out = Scanner_new.tokens
    /\ lex_errors = <<>>
    /\ scanner_pc = "scan"
    /\ InterpIdle /\ ParserIdle /\ EnvIdle /\ DriverIdle

\* one iteration of the loop of scan_tokens
scan_tokens_loop ==
    /\ scanner_pc = "scan"
    /\ ~Scanner_at_end(source, ScanState)
    /\ \E sc \in {scan_token(source, [ScanState EXCEPT !.start = scan_current])} :
          /\ scan_start' = sc.start
          /\ scan_current' = sc.current
          /\ line' = sc.line
          /\ scan_tokens_out' = sc.tokens
          /\ lex_errors' = sc.errors
          /\ scanner_pc' = IF sc.panicked THEN "panicked" ELSE "scan"
    /\ UNCHANGED source
    /\ UNCHANGED <<interp_vars, parser_vars, env_vars, driver_vars>>

\* the loop of scan_tokens is over: the Eof token is pushed
scan_tokens_return ==
    /\ scanner_pc = "scan"
    /\ Scanner_at_end(source, ScanState)
    /\ scan_tokens_out' =
           Append(scan_tokens_out, Token_new("Eof", "", None, line))
    /\ scanner_pc' = "returned"
    /\ UNCHANGED <<source, scan_start, scan_current, line, lex_errors>>
    /\ UNCHANGED <<interp_vars, parser_vars, env_vars, driver_vars>>

ScanNext == scan_tokens_loop \/ scan_tokens_return
SpecScan == ScanInit /\ [][ScanNext]_vars

----------------------------------------------------------------------------
(* SpecEnv: a chain of scopes, then calls of define, get and assign on its *)
(* innermost scope.                                                        *)

EnvValues == {Num(1), Num(2)}

\* the HashMaps over Names
Scope == UNION {[D -> EnvValues] : D \in SUBSET Names}

\* the chains of at most n scopes; the record is the innermost scope
RECURSIVE Chains(_)
Chains(n) ==
    IF n = 1 THEN {[enclosing |-> None, values |-> m] : m \in Scope}
    ELSE Chains(n - 1)
         \cup {[enclosing |-> Some(e), values |-> m] :
                 e \in Chains(n - 1), m \in Scope}

EnvInit ==
    /\ environment \in Chains(MaxDepth)
    /\ env_call = NoCall
    /\ stmts = <<>> /\ executed = <<>> /\ stdout = <<>>
    /\ runtime_errors = <<>> /\ interp_pc = "idle" /\ panic = NoPanic
    /\ ParserIdle /\ ScannerIdle /\ DriverIdle

EnvFrame ==
    /\ UNCHANGED <<stmts, executed, stdout, runtime_errors, interp_pc, panic>>
    /\ UNCHANGED <<parser_vars, scanner_vars, driver_vars>>

\* environment.define(name.lexeme, value)
Env_define ==
    /\ \E n \in Names, v \in EnvValues :
          /\ environment' = Environment_define(environment, Id(n).lexeme, v)
          /\ env_call' = [op |-> "define", name |-> Id(n), value |-> v,
                          ok |-> TRUE, result |-> Literal_Nil, err |-> NoError]
    /\ EnvFrame

\* environment.get(name)
Env_get ==
    /\ \E n \in Names :
          \E r \in {Environment_get(environment, Id(n))} :
             env_call' = [op |-> "get", name |-> Id(n), value |-> Literal_Nil,
                          ok |-> r.ok, result |-> r.value, err |-> r.err]
    /\ UNCHANGED environment
    /\ EnvFrame

\* environment.assign(name, value)
Env_assign ==
    /\ \E n \in Names, v \in EnvValues :
          \E r \in {Environment_assign(environment, Id(n), v)} :
             /\ environment' = r.env
             /\ env_call' = [op |-> "assign", name |-> Id(n), value |-> v,
                             ok |-> r.ok, result |-> Literal_Nil, err |-> r.err]
    /\ EnvFrame

EnvNext == Env_define \/ Env_get \/ Env_assign
SpecEnv == EnvInit /\ [][EnvNext]_vars

----------------------------------------------------------------------------
(* main.rs: the driver.  Lox::main calls run_prompt, which reads lines     *)
(* from stdin and hands each to run: scan_tokens, parse, the test of       *)
(* had_error, interpret.  INTERPRETER is a static: its environment lives   *)
(* on from line to line.                                                   *)

\* the most lines the prompt reads
MaxLines == 2

RECURSIVE parse_from(_, _, _, _)
\* the loop of Parser::parse, from cursor cur
parse_from(toks, cur, ss, reported) ==
    IF peek_panics(toks, cur)
    THEN [statements |-> ss, cur |-> cur, errors |-> reported,
          panicked |-> TRUE]
    ELSE IF Parser_at_end(toks, cur)
    THEN [statements |-> ss, cur |-> cur, errors |-> reported,
          panicked |-> FALSE]
    ELSE With(declaration(toks, cur),
              LAMBDA d :
                IF d.tag = "Panic"
                THEN [statements |-> ss, cur |-> d.cur,
                      errors |-> reported \o d.reported, panicked |-> TRUE]
                ELSE parse_from(toks, d.cur,
                         IF d.tag = "Ok" THEN Append(ss, d.node) ELSE ss,
                         reported \o d.reported))

\* Parser::new(tokens).parse()
parse(toks) == parse_from(toks, 0, <<>>, <<>>)

RECURSIVE interpret(_, _)
\* Interpreter::interpret: interpret_stmt on each statement in turn
interpret(st, ss) ==
    IF ss = <<>> THEN st
    ELSE With(interpret_stmt(st, Head(ss)),
              LAMBDA st1 : IF st1.panic # NoPanic THEN st1
                           ELSE interpret(st1, Tail(ss)))

\* the lines typed at the prompt
Lines ==
    {<<"p", "r", "i", "n", "t", " ", "1", ";">>,
     <<"v", "a", "r", " ", "a", "=", "1", ";">>,
     <<"p", "r", "i", "n", "t", " ", "a", ";">>,
     <<"1", ";">>,
     <<"@">>,
     <<"p", "r", "i", "n", "t", " ", "1", ";", "@">>,
     <<"p", "r", "i", "n", "t", " ", ";">>,
     <<"p", "r", "i", "n", "t", " ", "1", ";", "2">>,
     <<"a", "=">>}

\* main(): Lox{had_error: false}, the statics at their initial values
RunInit ==
    /\ had_error = FALSE /\ HAD_ERROR = FALSE
    /\ lines_read = 0 /\ interpret_calls = 0
    /\ run_pc = "prompt"
    /\ InterpIdle /\ ParserIdle /\ ScannerIdle /\ EnvIdle

\* run_prompt: read_line gives a line, which goes to run
run_prompt_read ==
    /\ run_pc = "prompt" /\ lines_read < MaxLines
    /\ source' \in Lines
    /\ lines_read' = lines_read + 1
    /\ scan_tokens_out' = <<>> /\ lex_errors' = <<>>
    /\ tokens' = <<>> /\ current' = 0
    /\ statements' = <<>> /\ parse_errors' = <<>>
    /\ run_pc' = "scan"
    /\ UNCHANGED <<scan_start, scan_current, line, scanner_pc, parser_pc>>
    /\ UNCHANGED <<had_error, HAD_ERROR, interpret_calls>>
    /\ UNCHANGED <<interp_vars, env_vars>>

\* run_prompt: read_line gives nothing (end of stdin), the loop breaks
run_prompt_break ==
    /\ run_pc = "prompt"
    /\ run_pc' = "exited"
    /\ UNCHANGED <<had_error, HAD_ERROR, lines_read, interpret_calls>>
    /\ UNCHANGED <<interp_vars, parser_vars, scanner_vars, env_vars>>

\* run: Scanner::new(source).scan_tokens(); each Lox::error goes to
\* Lox::report, which stores true in HAD_ERROR
run_scan ==
    /\ run_pc = "scan"
    /\ \E sc \in {scan_tokens(source)} :
          /\ scan_tokens_out' = sc.tokens
          /\ lex_errors' = sc.errors
          /\ HAD_ERROR' = (HAD_ERROR \/ sc.errors # <<>>)
          /\ run_pc' = IF sc.panicked THEN "panicked" ELSE "parse"
    /\ UNCHANGED <<source, scan_start, scan_current, line, scanner_pc>>
    /\ UNCHANGED <<had_error, lines_read, interpret_calls>>
    /\ UNCHANGED <<interp_vars, parser_vars, env_vars>>

\* run: Parser::new(tokens).parse(); each Lox::parse_error goes to
\* Lox::report, which stores true in HAD_ERROR
run_parse ==
    /\ run_pc = "parse"
    /\ \E p \in {parse(scan_tokens_out)} :
          /\ tokens' = scan_tokens_out
          /\ current' = p.cur
          /\ statements' = p.statements
          /\ parse_errors' = p.errors
          /\ HAD_ERROR' = (HAD_ERROR \/ p.errors # <<>>)
          /\ run_pc' = IF p.panicked THEN "panicked" ELSE "check"
    /\ UNCHANGED parser_pc
    /\ UNCHANGED <<had_error, lines_read, interpret_calls>>
    /\ UNCHANGED <<interp_vars, scanner_vars, env_vars>>

\* run: `if self.had_error { return; }`, then INTERPRETER.interpret(stmts)
run_interpret ==
    /\ run_pc = "check"
    /\ IF had_error
       THEN /\ run_pc' = "reset"
            /\ UNCHANGED <<interp_vars, interpret_calls>>
       ELSE /\ interpret_calls' = interpret_calls + 1
            /\ \E st \in {interpret(InterpState, statements)} :
                  /\ environment' = st.environment
                  /\ stdout' = st.stdout
                  /\ runtime_errors' = st.runtime_errors
                  /\ panic' = st.panic
                  /\ run_pc' = IF st.panic # NoPanic THEN "panicked"
                                ELSE "reset"
            /\ UNCHANGED <<stmts, executed, interp_pc>>
    /\ UNCHANGED <<had_error, HAD_ERROR, lines_read>>
    /\ UNCHANGED <<parser_vars, scanner_vars, env_vars>>

\* run_prompt: `self.had_error = false` after run
run_prompt_reset ==
    /\ run_pc = "reset"
    /\ had_error' = FALSE
    /\ run_pc' = "prompt"
    /\ UNCHANGED <<HAD_ERROR, lines_read, interpret_calls>>
    /\ UNCHANGED <<interp_vars, parser_vars, scanner_vars, env_vars>>

RunNext ==
    \/ run_prompt_read \/ run_prompt_break \/ run_scan \/ run_parse
    \/ run_interpret \/ run_prompt_reset
SpecRun == RunInit /\ [][RunNext]_vars

----------------------------------------------------------------------------
(* Claims about the interpreter (SpecInterp).                              *)

RECURSIVE ExprAssigned(_)
\* the names an expression assigns to
ExprAssigned(e) ==
    CASE e[1] = "Assignment" -> {e[2].lexeme} \cup ExprAssigned(e[3])
      [] e[1] = "Unary" -> ExprAssigned(e[3])
      [] e[1] \in {"Binary", "Logical"} -> ExprAssigned(e[2]) \cup ExprAssigned(e[4])
      [] e[1] = "Grouping" -> ExprAssigned(e[2])
      [] OTHER -> {}

RECURSIVE StmtAssigned(_)
\* the names a statement assigns to (declarations are not assignments)
StmtAssigned(s) ==
    CASE s[1] \in {"Print", "Expr"} -> ExprAssigned(s[2])
      [] s[1] = "Var" ->
           IF is_some(s[3]) THEN ExprAssigned(unwrap(s[3])) ELSE {}
      [] s[1] = "Block" ->
           UNION {StmtAssigned(s[2][i]) : i \in DOMAIN s[2]}
      [] s[1] = "If" ->
           ExprAssigned(s[2]) \cup StmtAssigned(s[3])
           \cup (IF is_some(s[4]) THEN StmtAssigned(unwrap(s[4])) ELSE {})

\* the next iteration of interpret runs a statement of this variant
Running(variant) ==
    interp_pc = "interpret" /\ stmts # <<>> /\ Head(stmts)[1] = variant

\* C1: a Block runs in a child scope that is discarded on exit: after the
\* block every name is bound (or unbound) exactly as before it, unless an
\* assignment inside the block changed it.
C1_BlockScopeDiscarded ==
    [][(Running("Block") /\ interp_pc' = "interpret")
        => \A n \in Names \ StmtAssigned(Head(stmts)) :
              Environment_get(environment', Id(n))
                  = Environment_get(environment, Id(n))]_vars

\* C4: an If without an else branch whose condition is falsy is a no-op: it
\* completes normally, prints nothing and leaves the environment as the
\* evaluation of the condition left it.
C4_IfWithoutElseIsNoOp ==
    [][(/\ Running("If")
        /\ is_none(Head(stmts)[4])
        /\ LET c == evaluate(environment, Head(stmts)[2])
           IN c.ok /\ ~is_truthy(c.value))
        => /\ interp_pc' = "interpret"
           /\ panic' = NoPanic
           /\ stdout' = stdout
           /\ runtime_errors' = runtime_errors
           /\ environment' = evaluate(environment, Head(stmts)[2]).env]_vars

\* the statement interpret runs next raises a RuntimeError
RaisesRuntimeError ==
    /\ interp_pc = "interpret" /\ stmts # <<>>
    /\ LET st == interpret_stmt(InterpState, Head(stmts))
       IN \/ Len(st.runtime_errors) > Len(runtime_errors)
          \/ st.panic = PanicUnwrapErr

\* C5: a RuntimeError raised in a top-level statement is reported and does
\* not stop the interpreter: the loop of interpret goes on to the statements
\* after it.
C5_RuntimeErrorDoesNotStop ==
    [][RaisesRuntimeError
        => /\ Len(runtime_errors') > Len(runtime_errors)
           /\ panic' # PanicUnwrapErr
           /\ (panic' = NoPanic => interp_pc' = "interpret")]_vars

\* C7: !v is Bool(true) exactly when v is Nil or Bool(false), and
\* Bool(false) for every other value v.
C7_BangNegatesTruthiness ==
    [][(/\ Running("Print")
        /\ Head(stmts)[2][1] = "Unary"
        /\ Head(stmts)[2][2].token_type = "Bang"
        /\ evaluate(environment, Head(stmts)[2][3]).ok)
        => LET v == evaluate(environment, Head(stmts)[2][3]).value
           IN stdout' = Append(stdout,
                  Literal_Bool(v.kind = "Nil" \/ (v.kind = "Bool" /\ ~v.b)))]_vars

\* C14: an If with both branches, whose condition has a value, executes
\* exactly one branch: the then-branch when the value is anything but Nil or
\* Bool(false) (Number 0 and the empty String included), the else-branch when
\* it is Nil or Bool(false).  The step leaves the interpreter as the chosen
\* branch alone leaves it.
C14_IfExecutesExactlyOneBranch ==
    [][(/\ Running("If")
        /\ is_some(Head(stmts)[4])
        /\ evaluate(environment, Head(stmts)[2]).ok)
        => LET c == evaluate(environment, Head(stmts)[2])
               falsy == c.value.kind = "Nil"
                           \/ (c.value.kind = "Bool" /\ ~c.value.b)
               branch == IF falsy THEN unwrap(Head(stmts)[4])
                         ELSE Head(stmts)[3]
               st == interpret_stmt([InterpState EXCEPT !.environment = c.env],
                                    branch)
           IN /\ environment' = st.environment
              /\ stdout' = st.stdout
              /\ runtime_errors' = st.runtime_errors
              /\ panic' = st.panic]_vars

\* `if (0) print "truthy"; else print "falsy";` has run its then-branch and
\* not its else-branch
C14_Witness ==
    /\ executed # <<>> /\ executed[Len(executed)] = IfZero
    /\ \E i \in DOMAIN stdout : stdout[i] = Literal_String("truthy")
    /\ \A i \in DOMAIN stdout : stdout[i] # Literal_String("falsy")

\* the next iteration of interpret prints a Binary expression whose operator
\* is one of ops
PrintsBinary(ops) ==
    /\ Running("Print")
    /\ Head(stmts)[2][1] = "Binary"
    /\ Head(stmts)[2][3].token_type \in ops

\* the statement interpret ran last, and its Binary expression
LastExecuted == executed[Len(executed)]
PrintedBinary(op, l, r) ==
    /\ executed # <<>>
    /\ LastExecuted[1] = "Print"
    /\ LastExecuted[2] = Expr_Binary(l, op, r)

\* C15: `+` yields the sum of two Numbers and the concatenation, left then
\* right, of two Strings; `-`, `*`, `/`, `>`, `>=`, `<`, `<=` yield a value
\* for two Numbers; every other pair of operand kinds raises the RuntimeError
\* "Operands must be numbers" at the operator.  The left operand is evaluated
\* before the right one, and an error in it leaves the right one unevaluated.
C15_BinaryOperandsAreTypeChecked ==
    [][PrintsBinary({"Plus", "Minus", "Star", "Slash", "Greater",
                     "GreaterEqual", "Less", "LessEqual"})
        => LET e == Head(stmts)[2]
               l == evaluate(environment, e[2])
               r == evaluate(l.env, e[4])
               numbers == l.value.kind = "Number" /\ r.value.kind = "Number"
               strings == l.value.kind = "String" /\ r.value.kind = "String"
           IN IF ~l.ok
              THEN /\ environment' = l.env
                   /\ runtime_errors' = Append(runtime_errors, l.err)
                   /\ stdout' = stdout
              ELSE IF ~r.ok
              THEN /\ environment' = r.env
                   /\ runtime_errors' = Append(runtime_errors, r.err)
                   /\ stdout' = stdout
              ELSE /\ environment' = r.env
                   /\ IF numbers
                      THEN /\ runtime_errors' = runtime_errors
                           /\ Len(stdout') = Len(stdout) + 1
                           /\ e[3].token_type = "Plus" =>
                                 stdout' = Append(stdout, Literal_Number(
                                     f64_add(l.value.num, r.value.num)))
                      ELSE IF strings /\ e[3].token_type = "Plus"
                      THEN /\ runtime_errors' = runtime_errors
                           /\ stdout' = Append(stdout,
                                  Literal_String(l.value.s \o r.value.s))
                      ELSE /\ stdout' = stdout
                           /\ runtime_errors' = Append(runtime_errors,
                                  RuntimeError(e[3], "Operands must be numbers"))]_vars

\* `var x = 1; print "a" < (x = 3);` has evaluated both operands, left then
\* right, and raised the error at `<`
C15_Witness ==
    /\ PrintedBinary(Tok("Less", "<"), Expr_Literal(Literal_String("a")),
                     Expr_Assignment(Id("x"), Expr_Literal(Num(3))))
    /\ Environment_get(environment, Id("x")).value = Num(3)
    /\ stdout = <<>>
    /\ runtime_errors
         = <<RuntimeError(Tok("Less", "<"), "Operands must be numbers")>>

\* a and b are both Nil, or of the same kind with equal payloads
SameValue(a, b) ==
    /\ a.kind = b.kind
    /\ a.kind = "Bool" => a.b = b.b
    /\ a.kind = "Number" => f64_eq(a.num, b.num)
    /\ a.kind = "String" => a.s = b.s

\* C16: for operands with values a and b of any kinds, `a == b` and `a != b`
\* evaluate to a Bool without a RuntimeError: `a == b` is true exactly when
\* a and b are both Nil or of the same kind with equal payloads, and
\* `a != b` is its negation.
C16_EqualityIsTotal ==
    [][(/\ PrintsBinary({"EqualEqual", "BangEqual"})
        /\ evaluate(environment, Head(stmts)[2][2]).ok
        /\ evaluate(evaluate(environment, Head(stmts)[2][2]).env,
                    Head(stmts)[2][4]).ok)
        => LET e == Head(stmts)[2]
               l == evaluate(environment, e[2])
               r == evaluate(l.env, e[4])
               equal == SameValue(l.value, r.value)
           IN /\ runtime_errors' = runtime_errors
              /\ panic' = NoPanic
              /\ stdout' = Append(stdout,
                     Literal_Bool(IF e[3].token_type = "EqualEqual"
                                  THEN equal ELSE ~equal))]_vars

\* `var x = 1; print x == "1";` has printed false
C16_Witness ==
    /\ PrintedBinary(Tok("EqualEqual", "=="), Expr_Var(Id("x")),
                     Expr_Literal(Literal_String("1")))
    /\ stdout = <<Literal_Bool(FALSE)>>
    /\ runtime_errors = <<>>

\* the inner statements of the Block ss run from the state st up to the first
\* one that raises a RuntimeError, that one included
RECURSIVE UpToFirstError(_, _)
UpToFirstError(st, ss) ==
    IF ss = <<>> THEN st
    ELSE LET st1 == interpret_stmt(st, Head(ss))
         IN IF st1.panic # NoPanic
               \/ Len(st1.runtime_errors) > Len(st.runtime_errors)
            THEN st1
            ELSE UpToFirstError(st1, Tail(ss))

\* C19: a RuntimeError aborts the top-level statement it occurs in: a Block
\* runs none of its inner statements after the first one that raises a
\* RuntimeError (nothing more is printed, defined or reported), and a Var
\* whose initializer raises a RuntimeError defines no binding.
C19_RuntimeErrorAbortsStatement ==
    [][/\ Running("Block") =>
            LET st == UpToFirstError(InterpState, Head(stmts)[2])
            IN /\ environment' = st.environment
               /\ stdout' = st.stdout
               /\ runtime_errors' = st.runtime_errors
       /\ (/\ Running("Var")
           /\ is_some(Head(stmts)[3])
           /\ ~evaluate(environment, unwrap(Head(stmts)[3])).ok)
            => environment'
                 = evaluate(environment, unwrap(Head(stmts)[3])).env]_vars

----------------------------------------------------------------------------
(* Claims about the parser, checked under SpecParse.                       *)

\* parse() has returned on the tokens of c, followed by Eof
Parsed(c) == tokens = c.toks \o <<EofTok>> /\ parser_pc = "returned"

\* C2: the tokens `x = e ;` (and `a = b = c ;`) parse without a parse error
\* into one expression statement holding Assignment(x, e) (resp.
\* Assignment(a, Assignment(b, c))).
C2_AssignmentParses ==
    \A c \in AssignmentCases :
        Parsed(c) => parse_errors = <<>> /\ statements = <<c.stmt>>

\* C3: the tokens `if ( expression ) statement`, with or without
\* `else statement`, parse without a parse error into one If node with that
\* condition, then-branch and optional else-branch.
C3_IfWithParenthesesParses ==
    \A c \in IfCases :
        Parsed(c) => parse_errors = <<>> /\ statements = <<c.stmt>>

\* C6: `a + b * c ;` parses without a parse error to
\* Binary(a, +, Binary(b, *, c)) and `a * b + c ;` to
\* Binary(Binary(a, *, b), +, c).
C6_FactorBindsTighterThanTerm ==
    \A c \in PrecedenceCases :
        Parsed(c) => parse_errors = <<>> /\ statements = <<c.stmt>>

\* C8: after a parse error in one declaration, the well-formed statement that
\* begins after the malformed one (after its `;`, or at the next
\* statement-start keyword, the token of the error included) is in the
\* sequence parse returns.
C8_RecoveryKeepsFollowingStatement ==
    \A c \in RecoveryCases :
        Parsed(c) => \E i \in DOMAIN statements : statements[i] = c.stmt

\* C9: `a or b ;` parses without a parse error into Logical(a, or, b), and
\* `a or b and c ;` into Logical(a, or, Logical(b, and, c)).
C9_LogicalOrParses ==
    \A c \in LogicalOrCases :
        Parsed(c) => parse_errors = <<>> /\ statements = <<c.stmt>>

----------------------------------------------------------------------------
(* Claims about the scanner, checked under SpecScan.                       *)

\* C10: for every source string, non-ASCII text included, scan_tokens does
\* not panic, and the token sequence it returns ends with Eof and holds no
\* other Eof token.
C10_ScannerNeverFails ==
    /\ scanner_pc # "panicked"
    /\ scanner_pc = "returned" =>
          /\ scan_tokens_out # <<>>
          /\ \A i \in DOMAIN scan_tokens_out :
                scan_tokens_out[i].token_type = "Eof" <=> i = Len(scan_tokens_out)

----------------------------------------------------------------------------
(* Claims about the environment, checked under SpecEnv.                    *)

\* the HashMaps of a chain, innermost first
RECURSIVE Scopes(_)
Scopes(env) ==
    <<env.values>>
    \o (IF is_some(env.enclosing) THEN Scopes(unwrap(env.enclosing)) ELSE <<>>)

\* some scope of the chain binds n
Bound(ss, n) == \E i \in DOMAIN ss : n \in DOMAIN ss[i]
\* the innermost scope of the chain that binds n
Innermost(ss, n) ==
    CHOOSE i \in DOMAIN ss :
        n \in DOMAIN ss[i] /\ \A j \in 1..(i - 1) : n \notin DOMAIN ss[j]
Undefined(t) == RuntimeError(t, "Undefined variable " \o t.lexeme)

\* C11: assign(name, v) binds name to v in the innermost scope that already
\* binds name and changes no other binding of any scope; when no scope binds
\* name it returns the undefined-variable RuntimeError carrying the token and
\* changes nothing; the names bound in each scope stay the same.
C11_AssignChangesOneBinding ==
    [][env_call'.op = "assign" =>
         LET ss == Scopes(environment)
             after == Scopes(environment')
             n == env_call'.name.lexeme
         IN /\ Len(after) = Len(ss)
            /\ \A i \in DOMAIN ss : DOMAIN after[i] = DOMAIN ss[i]
            /\ IF Bound(ss, n)
               THEN /\ env_call'.ok
                    /\ \A i \in DOMAIN ss : \A m \in DOMAIN ss[i] :
                          after[i][m] = IF i = Innermost(ss, n) /\ m = n
                                        THEN env_call'.value ELSE ss[i][m]
               ELSE /\ ~env_call'.ok
                    /\ env_call'.err = Undefined(env_call'.name)
                    /\ environment' = environment]_vars

\* assign has changed a binding of an enclosing scope that shadows a different
\* binding further out, and the innermost scope does not bind the name
C11_Witness ==
    /\ env_call.op = "assign" /\ env_call.ok
    /\ Len(Scopes(environment)) = 3
    /\ env_call.name.lexeme \notin DOMAIN Scopes(environment)[1]
    /\ env_call.name.lexeme \in DOMAIN Scopes(environment)[2]
    /\ env_call.name.lexeme \in DOMAIN Scopes(environment)[3]
    /\ Scopes(environment)[2][env_call.name.lexeme] = env_call.value
    /\ Scopes(environment)[3][env_call.name.lexeme] # env_call.value

\* C12: get(name) returns the value of name in the innermost scope that binds
\* it, fails with the undefined-variable RuntimeError carrying the token
\* exactly when no scope binds it, and changes no scope.
C12_GetFindsInnermostBinding ==
    [][env_call'.op = "get" =>
         LET ss == Scopes(environment)
             n == env_call'.name.lexeme
         IN /\ environment' = environment
            /\ env_call'.ok <=> Bound(ss, n)
            /\ env_call'.ok => env_call'.result = ss[Innermost(ss, n)][n]
            /\ ~env_call'.ok => env_call'.err = Undefined(env_call'.name)]_vars

\* get has returned the binding of the second scope, which shadows a different
\* one of the third
C12_Witness ==
    /\ env_call.op = "get" /\ env_call.ok
    /\ Len(Scopes(environment)) = 3
    /\ env_call.name.lexeme \notin DOMAIN Scopes(environment)[1]
    /\ env_call.name.lexeme \in DOMAIN Scopes(environment)[2]
    /\ env_call.name.lexeme \in DOMAIN Scopes(environment)[3]
    /\ env_call.result = Scopes(environment)[2][env_call.name.lexeme]
    /\ env_call.result # Scopes(environment)[3][env_call.name.lexeme]

\* C13: define(name, v) succeeds and binds name to v in the current scope,
\* replacing an earlier binding of name there; the other names of that scope
\* and every enclosing scope are unchanged.
C13_DefineBindsInCurrentScope ==
    [][env_call'.op = "define" =>
         LET ss == Scopes(environment)
             after == Scopes(environment')
             n == env_call'.name.lexeme
         IN /\ env_call'.ok
            /\ Len(after) = Len(ss)
            /\ DOMAIN after[1] = DOMAIN ss[1] \cup {n}
            /\ after[1][n] = env_call'.value
            /\ \A m \in DOMAIN ss[1] \ {n} : after[1][m] = ss[1][m]
            /\ \A i \in 2..Len(ss) : after[i] = ss[i]]_vars

\* define has bound, in the current scope, a name that an enclosing scope
\* binds to a different value
C13_Witness ==
    /\ env_call.op = "define"
    /\ Len(Scopes(environment)) >= 2
    /\ env_call.name.lexeme \in DOMAIN Scopes(environment)[2]
    /\ Scopes(environment)[1][env_call.name.lexeme] = env_call.value
    /\ Scopes(environment)[2][env_call.name.lexeme] # env_call.value

\* the positions of the char c in the source
Positions(c) == {k \in DOMAIN source : source[k] = c}
\* the token sequence without its last token
Front(toks) == SubSeq(toks, 1, Len(toks) - 1)

\* C17: when the source ends before the closing quote of a string literal
\* (here: its only quote, after a text without comment), scan_tokens reports
\* exactly one error "Unterminated string.", emits no token for the literal,
\* and returns the tokens of the text before the quote followed by one Eof.
C17_UnterminatedString ==
    \A k \in Positions("\"") :
        (/\ Positions("\"") = {k}
         /\ \A j \in Positions("/") : j > k
         /\ ~scan_tokens(SubSeq(source, 1, k - 1)).panicked
         /\ scanner_pc \notin {"scan", "idle"})
        => LET before == scan_tokens(SubSeq(source, 1, k - 1))
           IN /\ scanner_pc = "returned"
              /\ Cardinality({i \in DOMAIN lex_errors :
                     lex_errors[i].message = "Unterminated string."}) = 1
              /\ Len(lex_errors) = Len(before.errors) + 1
              /\ \A i \in DOMAIN scan_tokens_out :
                     scan_tokens_out[i].token_type # "String"
              /\ Front(scan_tokens_out) = Front(before.tokens)
              /\ scan_tokens_out[Len(scan_tokens_out)].token_type = "Eof"

\* C18: scanning `//` + c + newline + s, c without a newline, returns the
\* tokens of scanning s alone with each line number larger by one; a `//`
\* comment that runs to the end of the input returns the Eof token alone and
\* reports no error.
C18_CommentsContributeNoTokens ==
    (/\ Len(source) >= 2 /\ source[1] = "/" /\ source[2] = "/"
     /\ scanner_pc \notin {"scan", "idle"})
    => IF Positions("\n") = {}
       THEN /\ scanner_pc = "returned"
            /\ scan_tokens_out = <<Token_new("Eof", "", None, 1)>>
            /\ lex_errors = <<>>
       ELSE LET k == CHOOSE k \in Positions("\n") :
                         \A j \in Positions("\n") : k <= j
                alone == scan_tokens(SubSeq(source, k + 1, Len(source)))
            IN ~alone.panicked
               => /\ scanner_pc = "returned"
                  /\ scan_tokens_out
                       = [i \in DOMAIN alone.tokens |->
                             [alone.tokens[i] EXCEPT !.line = @ + 1]]

\* C20: a source that is one run of letters, digits and `_`, starting with
\* a letter or `_` (and is no keyword), is scanned as one Identifier token
\* with the whole run as lexeme, without an error.
C20_IdentifiersMayContainUnderscores ==
    (/\ source # <<>>
     /\ source[1] \in AsciiLetters \cup {"_"}
     /\ \A k \in DOMAIN source : source[k] \in AsciiLetters \cup Digits \cup {"_"}
     /\ collect(source, 0, Len(source)) \notin DOMAIN KEYWORDS
     /\ scanner_pc \notin {"scan", "idle"})
    => /\ scanner_pc = "returned"
       /\ lex_errors = <<>>
       /\ Len(scan_tokens_out) = 2
       /\ scan_tokens_out[1].token_type = "Identifier"
       /\ scan_tokens_out[1].lexeme = collect(source, 0, Len(source))
       /\ scan_tokens_out[2].token_type = "Eof"

----------------------------------------------------------------------------
(* Claims about the loops and the cursor of the parser.                    *)

\* the index of the one Eof token that closes the token sequence
EofIndex == Len(tokens) - 1

\* the token at cursor c is consumed, or the parser is left at Eof
Progress(c, d) ==
    /\ d.tag # "Panic"
    /\ d.cur > c \/ Parser_at_end(tokens, d.cur)

\* C22: parse terminates on a token sequence closed by one Eof: every
\* iteration of the loop of parse and of the loop of block_statement (a
\* declaration begun at a cursor that is not at Eof, whether it succeeds or
\* fails and is recovered by synchronize) consumes at least one token or
\* leaves the parser at Eof, and parse returns.
C22_ParseTerminates ==
    /\ [](parser_pc = "parse"
            => \A c \in 0..EofIndex :
                  ~Parser_at_end(tokens, c)
                  => Progress(c, declaration(tokens, c)))
    /\ [][parse_loop
            => current' > current \/ Parser_at_end(tokens, current')]_vars
    /\ (parser_pc = "parse" ~> parser_pc = "returned")

\* C22 witness: parse has returned after a declaration inside a block failed
\* and was recovered, and the block was closed after it.
C22_Witness ==
    /\ parser_pc = "returned"
    /\ tokens[1].token_type = "LeftBrace"
    /\ Len(parse_errors) = 1
    /\ statements = <<Stmt_Block(<<>>)>>

\* C23: the cursor stays in 0..EofIndex and never decreases, every peek
\* reads an existing token and previous is called at current >= 1 only (no
\* call of parse panics on an index), and advance never moves past Eof.
C23_CursorStaysInBounds ==
    [][parser_pc = "parse"
        => /\ current \in 0..EofIndex
           /\ current' \in current..EofIndex
           /\ parser_pc' # "panicked"
           /\ \A c \in 0..EofIndex :
                 Parser_advance(tokens, c).cur \in c..EofIndex]_vars

\* C23 witness: an error was detected at Eof, synchronize has run its
\* advance there, and the cursor is on the Eof token.
C23_Witness ==
    /\ parser_pc = "parse"
    /\ current = EofIndex
    /\ parse_errors # <<>>
    /\ parse_errors[Len(parse_errors)].token.token_type = "Eof"

----------------------------------------------------------------------------
(* Claims about the driver.                                                *)

\* Lox::report was called while the text in hand was scanned or parsed
Reported == lex_errors # <<>> \/ parse_errors # <<>>

\* C21: run evaluates no statement of a text for which the scanner or the
\* parser reported an error: after a call of Lox::report for the text in
\* hand, run returns without a call of INTERPRETER.interpret (nothing is
\* printed, defined or assigned); a text without a reported error is
\* interpreted, whatever the lines before it were.
C21_ErrorsSuppressInterpret ==
    [][run_pc = "check"
        => IF Reported
           THEN /\ interpret_calls' = interpret_calls
                /\ UNCHANGED <<environment, stdout, runtime_errors>>
           ELSE interpret_calls' = interpret_calls + 1]_vars

====
